---- MODULE Spec2Model ----
(***************************************************************************)
(* A model of the MiradorStack Grafana datasource plugin:                  *)
(*   - MiradorAPIClient (src/datasource/src/api/MiradorAPIClient.ts),      *)
(*   - DataSource.query and the three response translators,                *)
(*     testDatasource, the language provider, getLogFields and             *)
(*     interpolateVariablesInQueries (src/datasource/src/datasource.ts),   *)
(*   - the logs query editor and buildLuceneQuery                          *)
(*     (src/datasource/src/components/QueryEditor.tsx).                    *)
(* JSON values are tagged records (jt = the JavaScript type, jv = the      *)
(* value); objects are sequences of key/value pairs in insertion order.    *)
(***************************************************************************)
EXTENDS Integers, Sequences, FiniteSets, TLC

VARIABLES
    settings,   \* instanceSettings of the datasource: url, jsonData.tenantId, secureJsonData.token
    client,     \* the MiradorAPIClient: baseUrl, token, tenantId
    targets,    \* options.targets of the query() call in progress (or of the last one)
    range,      \* options.range of that call, [from, to] in epoch milliseconds
    mapped,     \* per target, the promise of its async arrow function (Promise.all's inputs)
    replies,    \* per target, what the transport settled its request with
    doneAt,     \* per target, what the clock read when its arrow function ended (-1: not yet)
    qpromise,   \* the promise query() returned to the host
    sent,       \* the fetch() requests issued during the query() call in progress
    rendered,   \* whether the host has rendered the response of an earlier query() call
    now,        \* the wall clock, Date.now()
    creq,       \* client used alone: the endpoint method called and its fetch() request
    cres,       \* client used alone: the promise that method returned
    tin,        \* translator used alone: the domain, the reply and the refId
    tout,       \* translator used alone: what the translator did and the frame query() returns
    lastMetrics,     \* DataSource.lastMetrics
    lastLabels,      \* DataSource.lastLabels
    lastLabelValues, \* DataSource.lastLabelValues
    invoked,    \* the method of the DataSource called last, its arguments and its reply
    returned,   \* what that method returned
    editor      \* the query editor: its `query` prop, its logFields and loadingFields
                \* state and the number of getLogFields() calls in flight

vars == <<settings, client, targets, range, mapped, replies, doneAt, qpromise, sent, rendered,
          now, creq, cres, tin, tout, lastMetrics, lastLabels, lastLabelValues, invoked,
          returned, editor>>

----------------------------------------------------------------------------
(* Bounds of the model *)

MaxTargets == 2
MaxClock == 1
MaxConditions == 2
MaxLoads == 2

----------------------------------------------------------------------------
(* JSON values and the JavaScript operators the code applies to them *)

Undef == [jt |-> "undefined"]
Null == [jt |-> "null"]
NaN == [jt |-> "nan"]
Num(n) == [jt |-> "num", jv |-> n]
Str(s) == [jt |-> "str", jv |-> s]
Bool(b) == [jt |-> "bool", jv |-> b]
Arr(s) == [jt |-> "arr", jv |-> s]
Obj(s) == [jt |-> "obj", jv |-> s]
P(k, v) == [key |-> k, val |-> v]

IsNullish(j) == j.jt \in {"undefined", "null"}

\* ToBoolean: what `if (x)`, `x || y` and `x && y` test
Truthy(j) ==
    CASE j.jt \in {"undefined", "null", "nan"} -> FALSE
      [] j.jt = "num" -> j.jv # 0
      [] j.jt = "str" -> j.jv # ""
      [] j.jt = "bool" -> j.jv
      [] OTHER -> TRUE

IsArray(j) == j.jt = "arr"

HasKey(j, k) == j.jt = "obj" /\ \E i \in 1..Len(j.jv) : j.jv[i].key = k

\* j.k on a value that is neither null nor undefined
Get(j, k) ==
    IF HasKey(j, k)
    THEN j.jv[CHOOSE i \in 1..Len(j.jv) : j.jv[i].key = k].val
    ELSE Undef

\* j?.k
OptGet(j, k) == IF IsNullish(j) THEN Undef ELSE Get(j, k)

\* a || b
Or(a, b) == IF Truthy(a) THEN a ELSE b

\* a ?? b
Coalesce(a, b) == IF IsNullish(a) THEN b ELSE a

\* Object.keys(j): own enumerable keys in insertion order (array indices for an array)
ObjectKeys(j) ==
    CASE j.jt = "obj" -> [i \in 1..Len(j.jv) |-> j.jv[i].key]
      [] j.jt = "arr" -> [i \in 1..Len(j.jv) |-> ToString(i - 1)]
      [] OTHER -> <<>>

\* A computation either returns a value or throws
Return(v) == [kind |-> "return", val |-> v]
Throw(e) == [kind |-> "throw", val |-> e]
TypeError == Str("TypeError")

\* A promise is pending, fulfilled with a value or rejected with a reason
Pending == [state |-> "pending"]
Fulfilled(v) == [state |-> "fulfilled", val |-> v]
Rejected(e) == [state |-> "rejected", val |-> e]

----------------------------------------------------------------------------
(* Conversions *)

\* The decimal numerals and ISO dates that occur in the replies of the model
Numerals == <<P("0", 0), P("1", 1), P("2", 2), P("3", 3), P("42", 42)>>
IsoDates == <<P("1970-01-01T00:00:01.000Z", 1000), P("1970-01-01T00:00:02.500Z", 2500)>>

Lookup(table, s, default) ==
    IF \E i \in 1..Len(table) : table[i].key = s
    THEN Num(table[CHOOSE i \in 1..Len(table) : table[i].key = s].val)
    ELSE default

RECURSIVE JoinStrings(_, _)
JoinStrings(ss, sep) ==
    IF Len(ss) = 0 THEN ""
    ELSE IF Len(ss) = 1 THEN ss[1]
    ELSE ss[1] \o sep \o JoinStrings(Tail(ss), sep)

\* String(j)
RECURSIVE ToStr(_)
ToStr(j) ==
    CASE j.jt = "str" -> j.jv
      [] j.jt = "num" -> ToString(j.jv)
      [] j.jt = "bool" -> IF j.jv THEN "true" ELSE "false"
      [] j.jt = "undefined" -> "undefined"
      [] j.jt = "null" -> "null"
      [] j.jt = "nan" -> "NaN"
      [] j.jt = "arr" ->
            JoinStrings([i \in 1..Len(j.jv) |->
                            IF IsNullish(j.jv[i]) THEN "" ELSE ToStr(j.jv[i])], ",")
      [] OTHER -> "[object Object]"

\* JSON.stringify(j) of a value that is not undefined
RECURSIVE JsonStringify(_)
JsonStringify(j) ==
    CASE j.jt = "str" -> "\"" \o j.jv \o "\""
      [] j.jt = "num" -> ToString(j.jv)
      [] j.jt = "bool" -> IF j.jv THEN "true" ELSE "false"
      [] j.jt \in {"null", "nan", "undefined"} -> "null"
      [] j.jt = "arr" ->
            "[" \o JoinStrings([i \in 1..Len(j.jv) |-> JsonStringify(j.jv[i])], ",") \o "]"
      [] OTHER ->
            LET kept == SelectSeq(j.jv, LAMBDA p : p.val.jt # "undefined")
            IN "{" \o JoinStrings([i \in 1..Len(kept) |->
                        "\"" \o kept[i].key \o "\":" \o JsonStringify(kept[i].val)], ",")
                   \o "}"

\* parseFloat(String(j))
ParseFloat(j) == IF j.jt = "num" THEN j ELSE Lookup(Numerals, ToStr(j), NaN)

\* Faulty variant of TimesThousand: the seconds are kept as they are
TimesOne(j) == IF j.jt = "num" THEN j ELSE NaN

\* x * 1000
TimesThousand(j) == IF j.jt = "num" THEN Num(j.jv * 1000) ELSE NaN

\* new Date(j).getTime()
DateGetTime(j) ==
    CASE j.jt = "num" -> j
      [] j.jt = "str" -> Lookup(IsoDates, j.jv, NaN)
      [] j.jt = "null" -> Num(0)
      [] j.jt = "bool" -> Num(IF j.jv THEN 1 ELSE 0)
      [] OTHER -> NaN

----------------------------------------------------------------------------
(* Frames *)

Field(name, type, values) == [name |-> name, type |-> type, values |-> values]

\* createDataFrame({refId, fields})
createDataFrame(refId, fields) == [refId |-> refId, fields |-> fields]

----------------------------------------------------------------------------
(* The response translators of DataSource *)

\* Faulty variant of Unwrap: response.data, whatever it is
UnwrapAlways(response) == OptGet(response, "data")

\* response?.data || response: the reply with Grafana's wrapping taken off
Unwrap(response) == Or(OptGet(response, "data"), response)

ExcludedLogKeys == {"_time", "_msg", "message", "level", "severity", "_stream", "_stream_id"}

\* The keys of `labels` after the forEach over the entries: each additional key,
\* in the order in which it is first met
RECURSIVE LabelKeys(_, _)
LabelKeys(entries, acc) ==
    IF Len(entries) = 0 THEN acc
    ELSE LET keys == ObjectKeys(entries[1])
             fresh == SelectSeq(keys, LAMBDA k :
                         /\ k \notin ExcludedLogKeys
                         /\ \A i \in 1..Len(acc) : acc[i] # k)
         IN LabelKeys(Tail(entries), acc \o fresh)

\* labels[key]: one pushed value per entry that has the key
LabelValues(entries, key) ==
    LET having == SelectSeq(entries, LAMBDA e :
                     \E i \in 1..Len(ObjectKeys(e)) : ObjectKeys(e)[i] = key)
    IN [i \in 1..Len(having) |->
           Str(ToStr(IF having[i].jt = "arr"
                     THEN having[i].jv[(CHOOSE n \in 1..Len(having[i].jv) :
                                          ToString(n - 1) = key)]
                     ELSE Get(having[i], key)))]

\* Faulty variant of LocateLogEntries: the branch for `data` being the list is missing
LocateLogEntriesNoDataList(apiResponse) ==
    LET data == Get(apiResponse, "data")
    IN IF Truthy(OptGet(data, "logs")) /\ IsArray(OptGet(data, "logs"))
       THEN OptGet(data, "logs").jv
       ELSE IF Truthy(Get(apiResponse, "logs")) /\ IsArray(Get(apiResponse, "logs"))
       THEN Get(apiResponse, "logs").jv
       ELSE IF Truthy(OptGet(data, "result")) /\ IsArray(OptGet(data, "result"))
       THEN OptGet(data, "result").jv
       ELSE IF Truthy(Get(apiResponse, "result")) /\ IsArray(Get(apiResponse, "result"))
       THEN Get(apiResponse, "result").jv
       ELSE <<>>

\* Faulty variant of LocateLogEntries: a shape that holds an empty list is passed over
LocateLogEntriesSkipEmpty(apiResponse) ==
    LET data == Get(apiResponse, "data")
        Holds(j) == IsArray(j) /\ Len(j.jv) > 0
    IN IF Holds(OptGet(data, "logs")) THEN OptGet(data, "logs").jv
       ELSE IF Holds(Get(apiResponse, "logs")) THEN Get(apiResponse, "logs").jv
       ELSE IF Holds(data) THEN data.jv
       ELSE IF Holds(OptGet(data, "result")) THEN OptGet(data, "result").jv
       ELSE IF Holds(Get(apiResponse, "result")) THEN Get(apiResponse, "result").jv
       ELSE <<>>

\* The entries the logs translator locates: the first known shape that holds a list
LocateLogEntries(apiResponse) ==
    LET data == Get(apiResponse, "data")
    IN IF Truthy(OptGet(data, "logs")) /\ IsArray(OptGet(data, "logs"))
       THEN OptGet(data, "logs").jv
       ELSE IF Truthy(Get(apiResponse, "logs")) /\ IsArray(Get(apiResponse, "logs"))
       THEN Get(apiResponse, "logs").jv
       ELSE IF IsArray(data)
       THEN data.jv
       ELSE IF Truthy(OptGet(data, "result")) /\ IsArray(OptGet(data, "result"))
       THEN OptGet(data, "result").jv
       ELSE IF Truthy(Get(apiResponse, "result")) /\ IsArray(Get(apiResponse, "result"))
       THEN Get(apiResponse, "result").jv
       ELSE <<>>

EmptyLogsFrame(refId) ==
    createDataFrame(refId, <<Field("timestamp", "time", <<>>),
                             Field("body", "string", <<>>),
                             Field("severity", "string", <<>>)>>)

\* Faulty variant of LogMessage: an entry without _msg and message gets an empty body
LogMessageOrEmpty(entry) ==
    Or(Or(Get(entry, "_msg"), Get(entry, "message")), Str(""))

\* entry._msg || entry.message || JSON.stringify(entry)
LogMessage(entry) ==
    Or(Or(Get(entry, "_msg"), Get(entry, "message")), Str(JsonStringify(entry)))

\* parseLogsResponse(response, refId), run when Date.now() reads `clock`
parseLogsResponse(response, refId, clock) ==
    LET apiResponse == Unwrap(response)
    IN IF IsNullish(apiResponse) THEN Throw(TypeError)
       ELSE
       LET logEntries == LocateLogEntries(apiResponse)
           n == Len(logEntries)
       IN IF n = 0 THEN Return(EmptyLogsFrame(refId))
          ELSE IF \E i \in 1..n : IsNullish(logEntries[i]) THEN Throw(TypeError)
          ELSE
          LET times == [i \in 1..n |->
                  IF Truthy(Get(logEntries[i], "_time"))
                  THEN DateGetTime(Get(logEntries[i], "_time"))
                  ELSE Num(clock)]
              messages == [i \in 1..n |-> LogMessage(logEntries[i])]
              levels == [i \in 1..n |->
                  Or(Or(Get(logEntries[i], "severity"), Get(logEntries[i], "level")),
                     Str("unknown"))]
              labelKeys == LabelKeys(logEntries, <<>>)
              labelFields == [k \in 1..Len(labelKeys) |->
                  Field(labelKeys[k], "string", LabelValues(logEntries, labelKeys[k]))]
          IN Return(createDataFrame(refId,
                 <<Field("timestamp", "time", times),
                   Field("body", "string", messages),
                   Field("severity", "string", levels)>> \o labelFields))

EmptyMetricsFrame(refId) ==
    createDataFrame(refId, <<Field("Time", "time", <<>>),
                             Field("value", "number", <<>>)>>)

\* The i-th element a destructuring `[timestamp, value] = pair` binds
Elem(pair, i) == IF i <= Len(pair.jv) THEN pair.jv[i] ELSE Undef

\* parseMetricsResponse(response, refId)
parseMetricsResponse(response, refId) ==
    LET apiResponse == Unwrap(response)
        results == Or(Or(OptGet(OptGet(apiResponse, "data"), "result"),
                         OptGet(apiResponse, "result")),
                      Arr(<<>>))
    IN IF ~IsArray(results) \/ Len(results.jv) = 0 THEN Return(EmptyMetricsFrame(refId))
       ELSE
       LET firstResult == results.jv[1]
       IN IF IsNullish(firstResult) THEN Throw(TypeError)
          ELSE
          LET metricLabels == Or(Get(firstResult, "metric"), Obj(<<>>))
              metricName == Or(Or(Get(metricLabels, "__name__"), Get(firstResult, "query")),
                               Str("value"))
              values == Get(firstResult, "values")
              value == Get(firstResult, "value")
              frame(times, metricValues) ==
                  createDataFrame(refId,
                      <<Field("Time", "time", times),
                        [name |-> ToStr(metricName), type |-> "number",
                         values |-> metricValues, labels |-> metricLabels]>>)
          IN IF Truthy(values) /\ IsArray(values)
             THEN IF \E i \in 1..Len(values.jv) : ~IsArray(values.jv[i])
                  THEN Throw(TypeError)
                  ELSE Return(frame(
                      [i \in 1..Len(values.jv) |->
                          TimesThousand(ParseFloat(Elem(values.jv[i], 1)))],
                      [i \in 1..Len(values.jv) |-> ParseFloat(Elem(values.jv[i], 2))]))
             ELSE IF Truthy(value) /\ IsArray(value)
             THEN Return(frame(<<TimesThousand(ParseFloat(Elem(value, 1)))>>,
                               <<ParseFloat(Elem(value, 2))>>))
             ELSE Return(EmptyMetricsFrame(refId))

EmptyTracesFrame(refId) ==
    createDataFrame(refId, <<Field("traceID", "string", <<>>),
                             Field("startTime", "time", <<>>),
                             Field("duration", "number", <<>>),
                             Field("serviceName", "string", <<>>),
                             Field("operationName", "string", <<>>)>>)

\* parseTracesResponse(response, refId)
parseTracesResponse(response, refId) ==
    LET apiResponse == Unwrap(response)
        traces == Or(Or(OptGet(apiResponse, "traces"),
                        OptGet(OptGet(apiResponse, "data"), "traces")),
                     Arr(<<>>))
    IN IF ~IsArray(traces) \/ Len(traces.jv) = 0 THEN Return(EmptyTracesFrame(refId))
       ELSE IF \E i \in 1..Len(traces.jv) : IsNullish(traces.jv[i]) THEN Throw(TypeError)
       ELSE
       LET t == traces.jv
           n == Len(t)
       IN Return(createDataFrame(refId,
           <<Field("traceID", "string", [i \in 1..n |->
                 Or(Or(Get(t[i], "traceID"), Get(t[i], "trace_id")), Str(""))]),
             Field("startTime", "time", [i \in 1..n |->
                 DateGetTime(Or(Or(Get(t[i], "startTime"), Get(t[i], "start_time")),
                                Num(0)))]),
             Field("duration", "number", [i \in 1..n |->
                 Or(Get(t[i], "duration"), Num(0))]),
             Field("serviceName", "string", [i \in 1..n |->
                 Or(Or(Get(t[i], "serviceName"), Get(t[i], "service_name")), Str(""))]),
             Field("operationName", "string", [i \in 1..n |->
                 Or(Or(Get(t[i], "operationName"), Get(t[i], "operation_name")),
                    Str(""))])>>))

----------------------------------------------------------------------------
(* MiradorAPIClient *)

\* new MiradorAPIClient(baseUrl, token, tenantId)
MiradorAPIClient(baseUrl, token, tenantId) ==
    [baseUrl |-> baseUrl, token |-> token, tenantId |-> tenantId]

\* new MiradorAPIError(message, status)
MiradorAPIError(message, status) ==
    Obj(<<P("name", Str("MiradorAPIError")), P("message", Str(ToStr(message))),
          P("status", status)>>)

\* Faulty variant of Headers: Authorization is set without looking at the token
HeadersAlways(c) ==
    <<P("Authorization", Str("Bearer " \o ToStr(c.token)))>>
    \o (IF Truthy(c.tenantId) THEN <<P("X-Tenant-ID", c.tenantId)>> ELSE <<>>)

\* The headers request() builds
Headers(c) ==
    (IF Truthy(c.token)
     THEN <<P("Authorization", Str("Bearer " \o ToStr(c.token)))>> ELSE <<>>)
    \o (IF Truthy(c.tenantId) THEN <<P("X-Tenant-ID", c.tenantId)>> ELSE <<>>)

\* request(endpoint, method, params, body) up to its await: the options it hands to
\* getBackendSrv().fetch()
request(c, endpoint, method, params, body) ==
    [url |-> c.baseUrl \o endpoint, method |-> method, headers |-> Obj(Headers(c)),
     params |-> params, data |-> body]

\* What the transport settles a request with: a response, or an error
OkReply(response) == [kind |-> "ok", val |-> response]
ErrReply(error) == [kind |-> "error", val |-> error]
NoReply == [kind |-> "none", val |-> Undef]

\* Faulty variant of requestSettled: the error of the transport is passed on as it is
requestSettledRaw(outcome) ==
    IF outcome.kind = "ok" THEN Fulfilled(outcome.val) ELSE Rejected(outcome.val)

\* request() from its await on: the promise it returns once the transport has settled
requestSettled(outcome) ==
    IF outcome.kind = "ok" THEN Fulfilled(outcome.val)
    ELSE IF IsNullish(outcome.val) THEN Rejected(TypeError)
    ELSE Rejected(MiradorAPIError(Or(Get(outcome.val, "message"), Str("API request failed")),
                                  Get(outcome.val, "status")))

DefaultLimit == 1000

\* ...(cond && {key: value}) in an object literal
Spread(cond, key, value) == IF Truthy(cond) THEN <<P(key, value)>> ELSE <<>>

\* The body of metricsAggregate, metricsRollup, metricsTransform and metricsLabel
FunctionBody(query) ==
    Obj(<<P("query", Get(query, "query"))>>
        \o Spread(Get(query, "params"), "params", Get(query, "params")))

\* The params of metricsLabels and metricsSeries
MatchParams(match, start, end) ==
    Obj((IF Truthy(match) /\ IsArray(match) /\ Len(match.jv) > 0
         THEN <<P("match[]", match)>> ELSE <<>>)
        \o Spread(start, "start", start)
        \o Spread(end, "end", end))

\* encodeURIComponent(s), for the identifiers of the model
UriEncoded == <<P("checkout", "checkout"), P("a b", "a%20b"), P("a/b", "a%2Fb")>>
encodeURIComponent(s) ==
    UriEncoded[CHOOSE i \in 1..Len(UriEncoded) : UriEncoded[i].key = s].val

\* A call of an endpoint method, up to the await in request(): the request it issues.
\* call.name is the method, call.args its arguments in order.
Invoke(c, call) ==
    LET a == call.args
        q == a[1]
    IN CASE call.name = "health" -> request(c, "/health", "get", Undef, Undef)
         [] call.name = "logs" ->
              request(c, "/logs/query", "post", Undef,
                  Obj(<<P("query", Get(q, "query")),
                        P("query_language", Or(Get(q, "query_language"), Str("lucene"))),
                        P("search_engine", Or(Get(q, "search_engine"), Str("bleve"))),
                        P("start", Get(q, "start")),
                        P("end", Get(q, "end")),
                        P("limit", Or(Get(q, "limit"), Num(DefaultLimit)))>>))
         [] call.name = "metrics" -> request(c, "/metrics", "get", q, Undef)
         [] call.name = "metricsQuery" ->
              request(c, "/metrics/query", "post", Undef,
                  Obj(<<P("query", Get(q, "query"))>>
                      \o Spread(Get(q, "time"), "time", Get(q, "time"))
                      \o <<P("include_definitions",
                             Coalesce(Get(q, "include_definitions"), Bool(TRUE)))>>
                      \o Spread(Get(q, "label_keys"), "label_keys", Get(q, "label_keys"))))
         [] call.name = "metricsQueryRange" ->
              request(c, "/metrics/query_range", "post", Undef,
                  Obj(<<P("query", Get(q, "query")),
                        P("start", Get(q, "start")),
                        P("end", Get(q, "end"))>>
                      \o Spread(Get(q, "step"), "step", Get(q, "step"))
                      \o <<P("include_definitions",
                             Coalesce(Get(q, "include_definitions"), Bool(TRUE)))>>
                      \o Spread(Get(q, "label_keys"), "label_keys", Get(q, "label_keys"))))
         [] call.name = "metricsAggregate" ->
              request(c, "/metrics/query/aggregate/" \o ToStr(a[1]), "post", Undef,
                      FunctionBody(a[2]))
         [] call.name = "metricsRollup" ->
              request(c, "/metrics/query/rollup/" \o ToStr(a[1]), "post", Undef,
                      FunctionBody(a[2]))
         [] call.name = "metricsTransform" ->
              request(c, "/metrics/query/transform/" \o ToStr(a[1]), "post", Undef,
                      FunctionBody(a[2]))
         [] call.name = "metricsLabel" ->
              request(c, "/metrics/query/label/" \o ToStr(a[1]), "post", Undef,
                      FunctionBody(a[2]))
         [] call.name = "metricsNames" -> request(c, "/metrics/names", "get", Undef, Undef)
         [] call.name = "metricsLabels" ->
              request(c, "/metrics/labels", "get", MatchParams(a[1], a[2], a[3]), Undef)
         [] call.name = "labelValues" ->
              request(c, "/label/" \o ToStr(a[1]) \o "/values", "get", Undef, Undef)
         [] call.name = "traces" ->
              request(c, "/traces/search", "post", Undef,
                  Obj(<<P("query", Or(Get(q, "query"), Str(""))),
                        P("query_language", Or(Get(q, "query_language"), Str("lucene"))),
                        P("search_engine", Or(Get(q, "search_engine"), Str("lucene"))),
                        P("start", Get(q, "start")),
                        P("end", Get(q, "end")),
                        P("limit", Or(Get(q, "limit"), Num(DefaultLimit)))>>))
         [] call.name = "logFields" -> request(c, "/logs/fields", "get", Undef, Undef)
         [] call.name = "metricsSeries" ->
              request(c, "/metrics/series", "get", MatchParams(a[1], a[2], a[3]), Undef)
         [] call.name = "logsStreams" -> request(c, "/logs/streams", "get", Undef, Undef)
         [] call.name = "logsHistogram" ->
              request(c, "/logs/histogram", "post", Undef,
                  Obj(<<P("query", Get(q, "query")),
                        P("query_language", Or(Get(q, "query_language"), Str("lucene"))),
                        P("search_engine", Or(Get(q, "search_engine"), Str("bleve"))),
                        P("start", Get(q, "start")),
                        P("end", Get(q, "end"))>>))
         [] call.name = "tracesServices" ->
              request(c, "/traces/services", "get", Undef, Undef)
         [] call.name = "tracesServiceOperations" ->
              request(c, "/traces/services/" \o encodeURIComponent(a[1].jv) \o "/operations",
                      "get", Undef, Undef)
         [] call.name = "tracesById" ->
              request(c, "/traces/" \o encodeURIComponent(a[1].jv), "get", Undef, Undef)
         [] call.name = "tracesFlamegraph" ->
              request(c, "/traces/" \o encodeURIComponent(a[1].jv) \o "/flamegraph",
                      "get", Undef, Undef)

\* {status: 'success', data}: what metricsNames, metricsLabels and labelValues return
PrometheusList(data) == Obj(<<P("status", Str("success")), P("data", data)>>)

\* The same call from the await on: the promise the endpoint method returns once the
\* transport has settled its request
Settle(call, outcome) ==
    LET p == requestSettled(outcome)
        response == p.val
    IN IF p.state = "rejected" THEN p
       ELSE IF call.name = "metricsNames"
       THEN LET names == OptGet(OptGet(response, "data"), "names")
            IN Fulfilled(PrometheusList(IF Truthy(names) /\ IsArray(names)
                                        THEN names ELSE Arr(<<>>)))
       ELSE IF call.name \in {"metricsLabels", "labelValues"}
       THEN LET data == OptGet(response, "data")
            IN Fulfilled(PrometheusList(IF Truthy(data) /\ IsArray(data)
                                        THEN data ELSE Arr(<<>>)))
       ELSE p

----------------------------------------------------------------------------
(* DataSource: construction and query() *)

\* The constructor: the client gets the url and the tenant id, and no token
DataSourceClient(instanceSettings) ==
    MiradorAPIClient(instanceSettings.url, Undef, instanceSettings.tenantId)

MsPerSecond == 1000
QueryLimit == 1000

\* (ms / 1000).toString() of a non-negative integer ms
DivThousandToString(ms) ==
    LET whole == ms \div MsPerSecond
        frac == ms % MsPerSecond
        digits == IF frac % 100 = 0 THEN ToString(frac \div 100)
                  ELSE IF frac % 10 = 0
                       THEN (IF frac < 100 THEN "0" ELSE "") \o ToString(frac \div 10)
                       ELSE (IF frac < 10 THEN "00" ELSE IF frac < 100 THEN "0" ELSE "")
                            \o ToString(frac)
    IN IF frac = 0 THEN ToString(whole) ELSE ToString(whole) \o "." \o digits

NoCall == [name |-> "none", args |-> <<>>]

\* Faulty variant of MetricsCall: the switch without the cases of the function
\* endpoints, which fall to the default case
MetricsCallWithoutFunctions(target, from, to) ==
    LET text == Or(Get(target, "queryText"), Str(""))
        metricsQueryType == Or(Get(target, "metricsQueryType"), Str("range"))
    IN IF metricsQueryType = Str("instant")
       THEN [name |-> "metricsQuery", args |-> <<Obj(<<
                P("query", text),
                P("time", Str(ToString(to \div MsPerSecond))),
                P("include_definitions",
                  Coalesce(Get(target, "includeDefinitions"), Bool(TRUE))),
                P("label_keys", Get(target, "labelKeys"))>>)>>]
       ELSE [name |-> "metricsQueryRange", args |-> <<Obj(<<
                P("query", text),
                P("start", Str(DivThousandToString(from))),
                P("end", Str(DivThousandToString(to))),
                P("step", Or(Get(target, "step"), Str("15s"))),
                P("include_definitions",
                  Coalesce(Get(target, "includeDefinitions"), Bool(TRUE))),
                P("label_keys", Get(target, "labelKeys"))>>)>>]

\* The client call of case 'metrics': the switch on target.metricsQueryType || 'range'
MetricsCall(target, from, to) ==
    LET text == Or(Get(target, "queryText"), Str(""))
        fn(default) == Or(Get(target, "functionName"), Str(default))
        metricsQueryType == Or(Get(target, "metricsQueryType"), Str("range"))
    IN IF metricsQueryType = Str("instant")
       THEN [name |-> "metricsQuery", args |-> <<Obj(<<
                P("query", text),
                P("time", Str(ToString(to \div MsPerSecond))),
                P("include_definitions",
                  Coalesce(Get(target, "includeDefinitions"), Bool(TRUE))),
                P("label_keys", Get(target, "labelKeys"))>>)>>]
       ELSE IF metricsQueryType = Str("aggregate")
       THEN [name |-> "metricsAggregate",
             args |-> <<fn("sum"), Obj(<<P("query", text)>>)>>]
       ELSE IF metricsQueryType = Str("rollup")
       THEN [name |-> "metricsRollup",
             args |-> <<fn("rate"), Obj(<<P("query", text)>>)>>]
       ELSE IF metricsQueryType = Str("transform")
       THEN [name |-> "metricsTransform",
             args |-> <<fn("abs"), Obj(<<P("query", text)>>)>>]
       ELSE IF metricsQueryType = Str("label")
       THEN [name |-> "metricsLabel",
             args |-> <<fn("label_replace"), Obj(<<P("query", text)>>)>>]
       ELSE [name |-> "metricsQueryRange", args |-> <<Obj(<<
                P("query", text),
                P("start", Str(DivThousandToString(from))),
                P("end", Str(DivThousandToString(to))),
                P("step", Or(Get(target, "step"), Str("15s"))),
                P("include_definitions",
                  Coalesce(Get(target, "includeDefinitions"), Bool(TRUE))),
                P("label_keys", Get(target, "labelKeys"))>>)>>]

\* The client call the arrow function makes for a target (none in the default case)
TargetCall(target, from, to) ==
    LET queryType == Get(target, "queryType")
        text == Or(Get(target, "queryText"), Str(""))
    IN IF queryType = Str("logs")
       THEN [name |-> "logs", args |-> <<Obj(<<
                P("query", text),
                P("start", Num(from)),
                P("end", Num(to)),
                P("limit", Num(QueryLimit)),
                P("search_engine", Or(Get(target, "queryEngine"), Str("bleve"))),
                P("query_language", Or(Get(target, "queryLanguage"), Str("lucene")))>>)>>]
       ELSE IF queryType = Str("metrics")
       THEN MetricsCall(target, from, to)
       ELSE IF queryType = Str("traces")
       THEN [name |-> "traces", args |-> <<Obj(<<
                P("query", text),
                P("start", Num(from)),
                P("end", Num(to)),
                P("query_language", Str("lucene")),
                P("search_engine", Or(Get(target, "queryEngine"), Str("bleve")))>>)>>]
       ELSE NoCall

\* Faulty variant of PlaceholderFrame: the frame of the catch block without its refId
PlaceholderFrameNoRefId(refId, from, to) ==
    createDataFrame("", <<Field("Time", "time", <<Num(from), Num(to)>>),
                          Field("value", "number", <<Num(0), Num(0)>>)>>)

\* The two-point frame of the default case and of the catch block
PlaceholderFrame(refId, from, to) ==
    createDataFrame(refId, <<Field("Time", "time", <<Num(from), Num(to)>>),
                             Field("value", "number", <<Num(0), Num(0)>>)>>)

\* The try block of the arrow function, given what the transport settled the target's
\* request with and what Date.now() reads when the reply is translated
TryBlock(target, from, to, outcome, clock) ==
    LET call == TargetCall(target, from, to)
        refId == Get(target, "refId").jv
        p == Settle(call, outcome)
    IN IF call.name = "none" THEN Return(PlaceholderFrame(refId, from, to))
       ELSE IF p.state = "rejected" THEN Throw(p.val)
       ELSE IF call.name = "logs" THEN parseLogsResponse(p.val, refId, clock)
       ELSE IF call.name = "traces" THEN parseTracesResponse(p.val, refId)
       ELSE parseMetricsResponse(p.val, refId)

\* Faulty variant of QueryTarget: the arrow function without its catch block
QueryTargetNoCatch(target, from, to, outcome, clock) ==
    LET r == TryBlock(target, from, to, outcome, clock)
    IN IF r.kind = "throw" THEN Rejected(r.val) ELSE Fulfilled(r.val)

\* The promise of the arrow function once its call has settled: try block and catch
QueryTarget(target, from, to, outcome, clock) ==
    LET r == TryBlock(target, from, to, outcome, clock)
    IN IF r.kind = "throw"
       THEN Fulfilled(PlaceholderFrame(Get(target, "refId").jv, from, to))
       ELSE Fulfilled(r.val)

\* Promise.all(promises): rejected as soon as one is, fulfilled with the values in the
\* order of the promises once all are
PromiseAll(promises) ==
    IF \E i \in 1..Len(promises) : promises[i].state = "rejected"
    THEN Rejected(promises[CHOOSE i \in 1..Len(promises) :
                               promises[i].state = "rejected"].val)
    ELSE IF \A i \in 1..Len(promises) : promises[i].state = "fulfilled"
    THEN Fulfilled([i \in 1..Len(promises) |-> promises[i].val])
    ELSE Pending

\* Faulty variant of QueryReturn: the frames at hand are returned as soon as one
\* arrow function has ended
QueryReturnPartial(promises) ==
    LET done == SelectSeq(promises, LAMBDA q : q.state = "fulfilled")
    IN IF Len(promises) = 0 \/ Len(done) > 0
       THEN Fulfilled([data |-> [i \in 1..Len(done) |-> done[i].val]])
       ELSE Pending

\* query() after `await Promise.all(...)`: return { data }
QueryReturn(promises) ==
    LET all == PromiseAll(promises)
    IN IF all.state = "fulfilled" THEN Fulfilled([data |-> all.val]) ELSE all

----------------------------------------------------------------------------
(* The inputs of the model: settings, targets, time ranges, replies *)

\* What getBackendSrv().fetch() emits: the body under `data`, beside the HTTP status
FetchResponse(body) ==
    Obj(<<P("data", body), P("status", Num(200)), P("statusText", Str("OK")),
          P("ok", Bool(TRUE))>>)

\* What it fails with
FetchError(status, message) ==
    Obj(<<P("status", status), P("message", message)>>)

BaseUrl == "http://mirador/api/v1"

\* The instance of the model: a tenant id in jsonData and a bearer token in
\* secureJsonData (ClientSpec covers what MiradorAPIClient does with and without them)
SettingsSet ==
    {[url |-> BaseUrl, tenantId |-> Str("acme"), token |-> Str("s3cret")]}

Ranges == {[from |-> 1000, to |-> 2500]}
NoRange == [from |-> 0, to |-> 0]

RefIds == <<"A", "B", "C", "D">>

TargetKinds == {"logs", "metrics", "traces", "other"}

\* The metrics query type of a metrics target at each position of the request
MetricsQueryTypes == <<"range", "instant", "aggregate", "rollup">>

\* The target of each query type at position n of the request; "other" is a target
\* whose queryType is not set
MakeTarget(kind, n) ==
    CASE kind = "logs" ->
           Obj(<<P("refId", Str(RefIds[n])), P("queryType", Str("logs")),
                 P("queryText", Str("level:error")), P("queryEngine", Str("lucene"))>>)
      [] kind = "metrics" ->
           Obj(<<P("refId", Str(RefIds[n])), P("queryType", Str("metrics")),
                 P("queryText", Str("up")),
                 P("metricsQueryType", Str(MetricsQueryTypes[n]))>>)
      [] kind = "traces" ->
           Obj(<<P("refId", Str(RefIds[n])), P("queryType", Str("traces")),
                 P("queryText", Str("service:checkout"))>>)
      [] OTHER ->
           Obj(<<P("refId", Str(RefIds[n])), P("queryText", Str("x"))>>)

\* The requests of the model: up to MaxTargets targets, with refIds A, B, ... in order
TargetLists ==
    UNION {{[i \in 1..n |-> MakeTarget(kinds[i], i)] : kinds \in [1..n -> TargetKinds]}
           : n \in 0..MaxTargets}

LogWithTime ==
    Obj(<<P("_time", Str("1970-01-01T00:00:01.000Z")), P("_msg", Str("disk full")),
          P("severity", Str("error")), P("host", Str("web-1"))>>)
LogWithoutTime ==
    Obj(<<P("message", Str("started")), P("level", Str("info"))>>)
Series ==
    Obj(<<P("metric", Obj(<<P("__name__", Str("up")), P("job", Str("api"))>>)),
          P("values", Arr(<<Arr(<<Num(1), Str("1")>>), Arr(<<Num(2), Str("0")>>)>>))>>)
Trace ==
    Obj(<<P("traceID", Str("abc")), P("startTime", Num(1000)), P("duration", Num(42)),
          P("serviceName", Str("checkout")), P("operationName", Str("GET /cart"))>>)

\* What the transport may settle the request of a target of each kind with: a failure,
\* a reply with records and, for logs, a reply whose record carries no _time and a
\* reply whose translation throws (a null record)
Outcomes(kind) ==
    {ErrReply(FetchError(Num(500), Str("Internal Server Error")))} \cup
    (CASE kind = "logs" ->
            {OkReply(FetchResponse(Obj(<<P("data", Obj(<<P("logs", Arr(<<LogWithTime>>))>>))>>))),
             OkReply(FetchResponse(Obj(<<P("logs", Arr(<<LogWithoutTime>>))>>))),
             OkReply(FetchResponse(Obj(<<P("result", Arr(<<Null>>))>>)))}
       [] kind = "metrics" ->
            {OkReply(FetchResponse(Obj(<<P("data", Obj(<<P("result", Arr(<<Series>>))>>))>>)))}
       [] kind = "traces" ->
            {OkReply(FetchResponse(Obj(<<P("traces", Arr(<<Trace>>))>>)))}
       [] OTHER -> {})

KindOf(target) ==
    IF Get(target, "queryType") \in {Str("logs"), Str("metrics"), Str("traces")}
    THEN Get(target, "queryType").jv ELSE "other"

----------------------------------------------------------------------------
(* query(): the host calls it, the transport settles its requests, the clock ticks *)

NotCalled == [state |-> "idle"]
NoRequest == [call |-> NoCall, options |-> Undef, outcome |-> NoReply]
NotInvoked == [name |-> "none"]
NotMounted == [query |-> Undef, logFields |-> Undef]
NoInput == [domain |-> "none", body |-> Undef, refId |-> "", at |-> 0]

\* query(options), up to `await Promise.all(...)`: every arrow function runs to its
\* await (its request is issued) or, in the default case, to its end
QueryStart(ts, r) ==
    /\ qpromise.state = "idle"
    /\ targets' = ts
    /\ range' = r
    /\ replies' = [i \in 1..Len(ts) |-> NoReply]
    /\ doneAt' = [i \in 1..Len(ts) |->
                    IF TargetCall(ts[i], r.from, r.to).name # "none" THEN -1 ELSE now]
    /\ LET issues(i) == TargetCall(ts[i], r.from, r.to).name # "none"
           promises == [i \in 1..Len(ts) |->
               IF issues(i) THEN Pending
               ELSE QueryTarget(ts[i], r.from, r.to, NoReply, now)]
           tagged == [i \in 1..Len(ts) |->
               [target |-> i,
                options |-> IF issues(i)
                            THEN Invoke(client, TargetCall(ts[i], r.from, r.to))
                            ELSE Undef]]
       IN /\ mapped' = promises
          /\ sent' = SelectSeq(tagged, LAMBDA t : issues(t.target))
          /\ qpromise' = QueryReturn(promises)
    /\ UNCHANGED <<settings, client, rendered, now, creq, cres, tin, tout>>
    /\ UNCHANGED <<lastMetrics, lastLabels, lastLabelValues, invoked, returned, editor>>

\* Faulty variant of Complete: one catch block around Promise.all instead of one per
\* target, so that a failure anywhere turns every frame into the placeholder
CompleteSharedCatch(i, outcome) ==
    /\ i \in 1..Len(targets)
    /\ mapped[i].state = "pending"
    /\ replies' = [replies EXCEPT ![i] = outcome]
    /\ doneAt' = [doneAt EXCEPT ![i] = now]
    /\ LET r == TryBlock(targets[i], range.from, range.to, outcome, now)
       IN mapped' = IF r.kind = "throw"
                    THEN [j \in 1..Len(targets) |->
                            Fulfilled(PlaceholderFrame(Get(targets[j], "refId").jv,
                                                       range.from, range.to))]
                    ELSE [mapped EXCEPT ![i] = Fulfilled(r.val)]
    /\ qpromise' = IF qpromise.state = "pending" THEN QueryReturn(mapped') ELSE qpromise
    /\ UNCHANGED <<settings, client, targets, range, sent, rendered, now, creq, cres,
                   tin, tout>>
    /\ UNCHANGED <<lastMetrics, lastLabels, lastLabelValues, invoked, returned, editor>>

\* Faulty variant of Complete: the frames are collected in the order in which the calls
\* settle, not in the order of the targets
CompleteInArrivalOrder(i, outcome) ==
    /\ i \in 1..Len(targets)
    /\ TargetCall(targets[i], range.from, range.to).name # "none"
    /\ replies[i].kind = "none"
    /\ replies' = [replies EXCEPT ![i] = outcome]
    /\ doneAt' = [doneAt EXCEPT ![i] = now]
    /\ LET slot == CHOOSE k \in 1..Len(targets) :
                       /\ mapped[k].state = "pending"
                       /\ \A m \in 1..(k - 1) : mapped[m].state # "pending"
       IN mapped' = [mapped EXCEPT
                       ![slot] = QueryTarget(targets[i], range.from, range.to, outcome, now)]
    /\ qpromise' = IF qpromise.state = "pending" THEN QueryReturn(mapped') ELSE qpromise
    /\ UNCHANGED <<settings, client, targets, range, sent, rendered, now, creq, cres,
                   tin, tout>>
    /\ UNCHANGED <<lastMetrics, lastLabels, lastLabelValues, invoked, returned, editor>>

\* Faulty variant of Complete: a request that failed is issued once more
CompleteWithRetry(i, outcome) ==
    /\ i \in 1..Len(targets)
    /\ mapped[i].state = "pending"
    /\ IF outcome.kind = "error" /\ Len(SelectSeq(sent, LAMBDA t : t.target = i)) < 2
       THEN /\ sent' = Append(sent, [target |-> i,
                                     options |-> Invoke(client,
                                         TargetCall(targets[i], range.from, range.to))])
            /\ UNCHANGED <<replies, doneAt, mapped, qpromise>>
       ELSE /\ replies' = [replies EXCEPT ![i] = outcome]
            /\ doneAt' = [doneAt EXCEPT ![i] = now]
            /\ mapped' = [mapped EXCEPT
                   ![i] = QueryTarget(targets[i], range.from, range.to, outcome, now)]
            /\ qpromise' = IF qpromise.state = "pending" THEN QueryReturn(mapped')
                           ELSE qpromise
            /\ UNCHANGED sent
    /\ UNCHANGED <<settings, client, targets, range, rendered, now, creq, cres, tin, tout>>
    /\ UNCHANGED <<lastMetrics, lastLabels, lastLabelValues, invoked, returned, editor>>

\* Faulty variant of Complete: the reply is kept in lastMetrics, and a failed request
\* is answered with the reply kept there
CompleteFromLastMetrics(i, outcome) ==
    /\ i \in 1..Len(targets)
    /\ mapped[i].state = "pending"
    /\ replies' = [replies EXCEPT ![i] = outcome]
    /\ doneAt' = [doneAt EXCEPT ![i] = now]
    /\ lastMetrics' = IF outcome.kind = "ok" THEN outcome.val ELSE lastMetrics
    /\ mapped' = [mapped EXCEPT
                    ![i] = QueryTarget(targets[i], range.from, range.to,
                                       IF outcome.kind = "ok" \/ lastMetrics = Arr(<<>>)
                                       THEN outcome ELSE OkReply(lastMetrics), now)]
    /\ qpromise' = IF qpromise.state = "pending" THEN QueryReturn(mapped') ELSE qpromise
    /\ UNCHANGED <<settings, client, targets, range, sent, rendered, now, creq, cres,
                   tin, tout>>
    /\ UNCHANGED <<lastLabels, lastLabelValues, invoked, returned, editor>>

\* The transport settles the request of target i; the arrow function runs to its end
\* and, when this was the last one, query() returns
Complete(i, outcome) ==
    /\ i \in 1..Len(targets)
    /\ mapped[i].state = "pending"
    /\ replies' = [replies EXCEPT ![i] = outcome]
    /\ doneAt' = [doneAt EXCEPT ![i] = now]
    /\ mapped' = [mapped EXCEPT
                    ![i] = QueryTarget(targets[i], range.from, range.to, outcome, now)]
    /\ qpromise' = IF qpromise.state = "pending" THEN QueryReturn(mapped') ELSE qpromise
    /\ UNCHANGED <<settings, client, targets, range, sent, rendered, now, creq, cres,
                   tin, tout>>
    /\ UNCHANGED <<lastMetrics, lastLabels, lastLabelValues, invoked, returned, editor>>

\* Time passes
Tick ==
    /\ now < MaxClock
    /\ now' = now + 1
    /\ UNCHANGED <<settings, client, targets, range, mapped, replies, doneAt, qpromise,
                   sent, rendered, creq, cres, tin, tout>>
    /\ UNCHANGED <<lastMetrics, lastLabels, lastLabelValues, invoked, returned, editor>>

\* The host takes the settled promise of query() and renders the panel; the frames,
\* and everything else the call held, are dropped
Render ==
    /\ qpromise.state \in {"fulfilled", "rejected"}
    /\ rendered' = TRUE
    /\ targets' = <<>>
    /\ mapped' = <<>>
    /\ replies' = <<>>
    /\ doneAt' = <<>>
    /\ sent' = <<>>
    /\ range' = NoRange
    /\ qpromise' = NotCalled
    /\ UNCHANGED <<settings, client, now, creq, cres, tin, tout>>
    /\ UNCHANGED <<lastMetrics, lastLabels, lastLabelValues, invoked, returned, editor>>

Init ==
    /\ settings \in SettingsSet
    /\ client = DataSourceClient(settings)
    /\ targets = <<>>
    /\ range = NoRange
    /\ mapped = <<>>
    /\ replies = <<>>
    /\ doneAt = <<>>
    /\ qpromise = NotCalled
    /\ sent = <<>>
    /\ rendered = FALSE
    /\ now = 0
    /\ creq = NoRequest
    /\ cres = NotCalled
    /\ tin = NoInput
    /\ tout = Undef
    /\ lastMetrics = Arr(<<>>)
    /\ lastLabels = Arr(<<>>)
    /\ lastLabelValues = Obj(<<>>)
    /\ invoked = NotInvoked
    /\ returned = Undef
    /\ editor = NotMounted

\* The host calls query()
Querying == \E ts \in TargetLists, r \in Ranges : QueryStart(ts, r)

\* The transport settles one of the requests in flight
Settling == \E i \in DOMAIN targets : \E o \in Outcomes(KindOf(targets[i])) : Complete(i, o)

Next ==
    \/ Querying
    \/ Settling
    \/ Tick
    \/ Render

Spec == Init /\ [][Next]_vars

\* The transport settles every request sooner or later, and the event loop then runs
\* the continuation
FairSpec == Spec /\ WF_vars(Settling)

----------------------------------------------------------------------------
(* MiradorAPIClient used alone: any credentials, every endpoint method *)

Tokens == {Undef, Str(""), Str("s3cret")}
TenantIds == {Undef, Str(""), Str("acme")}

LogsQuery ==
    Obj(<<P("query", Str("level:error")), P("start", Num(1000)), P("end", Num(2500))>>)
MetricsQuery ==
    Obj(<<P("query", Str("up")), P("start", Str("1")), P("end", Str("2.5"))>>)

\* One call of each endpoint method
ClientCalls ==
    {[name |-> "health", args |-> <<>>],
     [name |-> "logs", args |-> <<LogsQuery>>],
     [name |-> "metrics", args |-> <<MetricsQuery>>],
     [name |-> "metricsQuery", args |-> <<Obj(<<P("query", Str("up"))>>)>>],
     [name |-> "metricsQueryRange", args |-> <<MetricsQuery>>],
     [name |-> "metricsAggregate", args |-> <<Str("sum"), Obj(<<P("query", Str("up"))>>)>>],
     [name |-> "metricsRollup", args |-> <<Str("rate"), Obj(<<P("query", Str("up"))>>)>>],
     [name |-> "metricsTransform", args |-> <<Str("abs"), Obj(<<P("query", Str("up"))>>)>>],
     [name |-> "metricsLabel",
      args |-> <<Str("label_replace"), Obj(<<P("query", Str("up"))>>)>>],
     [name |-> "metricsNames", args |-> <<>>],
     [name |-> "metricsLabels", args |-> <<Undef, Undef, Undef>>],
     [name |-> "labelValues", args |-> <<Str("job")>>],
     [name |-> "traces", args |-> <<LogsQuery>>],
     [name |-> "logFields", args |-> <<>>],
     [name |-> "metricsSeries", args |-> <<Arr(<<Str("up")>>), Str("1"), Undef>>],
     [name |-> "logsStreams", args |-> <<>>],
     [name |-> "logsHistogram", args |-> <<LogsQuery>>],
     [name |-> "tracesServices", args |-> <<>>],
     [name |-> "tracesServiceOperations", args |-> <<Str("a b")>>],
     [name |-> "tracesById", args |-> <<Str("a/b")>>],
     [name |-> "tracesFlamegraph", args |-> <<Str("checkout")>>]}

\* What the transport may settle a request with: a response, or an error with or
\* without a message and a status
ClientOutcomes ==
    {OkReply(FetchResponse(Null)),
     OkReply(FetchResponse(Arr(<<Str("job")>>))),
     OkReply(FetchResponse(Obj(<<P("data", Arr(<<Str("job")>>))>>))),
     OkReply(FetchResponse(Obj(<<P("data", Obj(<<P("names", Arr(<<Str("up")>>))>>))>>))),
     ErrReply(FetchError(Num(500), Str("Internal Server Error"))),
     ErrReply(FetchError(Num(401), Str(""))),
     ErrReply(Obj(<<P("status", Num(502)), P("statusText", Str("Bad Gateway")),
                    P("data", Obj(<<P("message", Str("upstream down"))>>))>>)),
     ErrReply(Obj(<<P("name", Str("EmptyError")),
                    P("message", Str("no elements in sequence"))>>))}

\* An endpoint method is called: it runs to the await in request()
ClientCall(call) ==
    /\ cres.state # "pending"
    /\ creq' = [call |-> call, options |-> Invoke(client, call), outcome |-> NoReply]
    /\ cres' = Pending
    /\ UNCHANGED <<settings, client, targets, range, mapped, replies, doneAt, qpromise,
                   sent, rendered, now, tin, tout>>
    /\ UNCHANGED <<lastMetrics, lastLabels, lastLabelValues, invoked, returned, editor>>

\* The transport settles the request: the method runs to its end
ClientSettle(outcome) ==
    /\ cres.state = "pending"
    /\ creq' = [creq EXCEPT !.outcome = outcome]
    /\ cres' = Settle(creq.call, outcome)
    /\ UNCHANGED <<settings, client, targets, range, mapped, replies, doneAt, qpromise,
                   sent, rendered, now, tin, tout>>
    /\ UNCHANGED <<lastMetrics, lastLabels, lastLabelValues, invoked, returned, editor>>

ClientInit ==
    /\ settings = [url |-> BaseUrl, tenantId |-> Undef, token |-> Undef]
    /\ \E token \in Tokens, tenantId \in TenantIds :
          client = MiradorAPIClient(BaseUrl, token, tenantId)
    /\ targets = <<>>
    /\ range = NoRange
    /\ mapped = <<>>
    /\ replies = <<>>
    /\ doneAt = <<>>
    /\ qpromise = NotCalled
    /\ sent = <<>>
    /\ rendered = FALSE
    /\ now = 0
    /\ creq = NoRequest
    /\ cres = NotCalled
    /\ tin = NoInput
    /\ tout = Undef
    /\ lastMetrics = Arr(<<>>)
    /\ lastLabels = Arr(<<>>)
    /\ lastLabelValues = Obj(<<>>)
    /\ invoked = NotInvoked
    /\ returned = Undef
    /\ editor = NotMounted

Calling_Client == \E call \in ClientCalls : ClientCall(call)
Settling_Client == \E outcome \in ClientOutcomes : ClientSettle(outcome)

ClientNext ==
    \/ Calling_Client
    \/ Settling_Client

ClientSpec == ClientInit /\ [][ClientNext]_vars

----------------------------------------------------------------------------
(* The translators used alone, on replies of every shape *)

Domains == {"logs", "metrics", "traces"}

\* Reply bodies that have none of the shapes a translator knows
ShapelessBodies ==
    {Undef, Null, Str(""), Str("OK"), Num(0), Bool(FALSE), Arr(<<>>), Obj(<<>>),
     Obj(<<P("status", Str("success"))>>),
     Obj(<<P("data", Null)>>),
     Obj(<<P("data", Obj(<<P("fields", Arr(<<Str("host")>>))>>))>>)}

\* Reply bodies with a known key that holds an empty list
EmptyListBodies(domain) ==
    CASE domain = "logs" ->
           {Obj(<<P("data", Obj(<<P("logs", Arr(<<>>))>>))>>),
            Obj(<<P("logs", Arr(<<>>))>>),
            Obj(<<P("data", Arr(<<>>))>>),
            Obj(<<P("data", Obj(<<P("result", Arr(<<>>))>>))>>),
            Obj(<<P("result", Arr(<<>>))>>)}
      [] domain = "metrics" ->
           {Obj(<<P("data", Obj(<<P("result", Arr(<<>>))>>))>>),
            Obj(<<P("result", Arr(<<>>))>>),
            Obj(<<P("status", Str("success")),
                  P("data", Obj(<<P("resultType", Str("matrix")),
                                  P("result", Arr(<<>>))>>))>>)}
      [] OTHER ->
           {Obj(<<P("traces", Arr(<<>>))>>),
            Obj(<<P("data", Obj(<<P("traces", Arr(<<>>))>>))>>)}

\* Reply bodies with a known key that holds something other than a list
NonListBodies(domain) ==
    CASE domain = "logs" ->
           {Obj(<<P("logs", Str("none"))>>),
            Obj(<<P("data", Obj(<<P("logs", Obj(<<>>))>>))>>),
            Obj(<<P("result", Num(0))>>)}
      [] domain = "metrics" ->
           {Obj(<<P("result", Str("none"))>>),
            Obj(<<P("data", Obj(<<P("result", Obj(<<>>))>>))>>)}
      [] OTHER ->
           {Obj(<<P("traces", Str("none"))>>),
            Obj(<<P("data", Obj(<<P("traces", Null)>>))>>)}

\* The five places at which a logs reply may hold its records
LogShapes == {"data.logs", "logs", "data", "data.result", "result"}

\* A logs reply body that holds the records at one of them
LogEnvelope(shape, records) ==
    CASE shape = "data.logs" -> Obj(<<P("data", Obj(<<P("logs", Arr(records))>>))>>)
      [] shape = "logs" -> Obj(<<P("logs", Arr(records))>>)
      [] shape = "data" -> Obj(<<P("data", Arr(records))>>)
      [] shape = "data.result" ->
           Obj(<<P("status", Str("success")),
                 P("data", Obj(<<P("result", Arr(records))>>))>>)
      [] OTHER -> Obj(<<P("result", Arr(records))>>)

\* Lists of log records: one record, two and three, with and without _time
LogRecordLists ==
    {<<LogWithTime>>, <<LogWithoutTime>>, <<LogWithoutTime, LogWithTime>>,
     <<LogWithTime, LogWithoutTime, LogWithTime>>}

\* Log records with both names of each field, with the second name only, with neither
\* and with the first name holding an empty text
SparseLogs ==
    Arr(<<Obj(<<P("_time", Str("1970-01-01T00:00:02.500Z")), P("_msg", Str("disk full")),
                P("message", Str("ignored")), P("severity", Str("error")),
                P("level", Str("warn"))>>),
          LogWithoutTime,
          Obj(<<P("host", Str("web-1"))>>),
          Obj(<<P("_time", Str("")), P("_msg", Str("")), P("message", Str("retry")),
                P("severity", Str("")), P("level", Str("debug"))>>)>>)

\* Traces with the camel-case names, with the snake-case names and with no field
SparseTraces ==
    Arr(<<Trace,
          Obj(<<P("trace_id", Str("def")), P("start_time", Str("1970-01-01T00:00:02.500Z")),
                P("service_name", Str("cart")), P("operation_name", Str("POST /pay"))>>),
          Obj(<<>>)>>)

\* The position of each place in the chain of tests of parseLogsResponse
ShapeRank(shape) ==
    CASE shape = "data.logs" -> 1
      [] shape = "logs" -> 2
      [] shape = "data" -> 3
      [] shape = "data.result" -> 4
      [] OTHER -> 5

\* The place of a set of places that parseLogsResponse tests first
Earliest(held) == CHOOSE s \in held : \A t \in held : ShapeRank(s) <= ShapeRank(t)

\* The records a reply with lists at several places holds at each of them
ListAt(shape) ==
    CASE shape = "data.logs" -> <<LogWithTime>>
      [] shape = "logs" -> <<LogWithoutTime>>
      [] shape = "data" -> <<LogWithTime, LogWithoutTime>>
      [] shape = "data.result" -> <<LogWithoutTime, LogWithTime>>
      [] OTHER -> <<LogWithTime, LogWithTime>>

\* The sets of two or more places one reply can hold lists at: `data` is either the list
\* or an object with the keys logs and result
SeveralShapes ==
    {held \in SUBSET LogShapes :
        /\ Cardinality(held) >= 2
        /\ "data" \in held => held \cap {"data.logs", "data.result"} = {}}

\* What such a reply holds at the place tested first: its records, an empty list, or a
\* text
FirstHolds == {"records", "empty", "text"}

\* A logs reply body with lists at several places, its keys written in the reverse of the
\* order of the tests
SeveralEnvelope(held, first) ==
    LET at(shape) ==
            IF shape # Earliest(held) \/ first = "records" THEN Arr(ListAt(shape))
            ELSE IF first = "empty" THEN Arr(<<>>)
            ELSE Str("none")
        opt(shape, key) == IF shape \in held THEN <<P(key, at(shape))>> ELSE <<>>
        inner == opt("data.result", "result") \o opt("data.logs", "logs")
    IN Obj(opt("result", "result") \o opt("logs", "logs")
           \o (IF "data" \in held THEN opt("data", "data")
               ELSE IF Len(inner) > 0 THEN <<P("data", Obj(inner))>>
               ELSE <<>>))

SeveralBodies == {SeveralEnvelope(held, first) : held \in SeveralShapes, first \in FirstHolds}

\* Result lists of metrics replies: two series; a series named by its query only, with a
\* textual timestamp; one with no name at all; one with both values and value; one with
\* an empty values list; one with neither; one whose values is no list
SeriesLists ==
    LET up == P("metric", Obj(<<P("__name__", Str("up"))>>))
    IN {<<Series, Obj(<<P("query", Str("down")), P("value", Arr(<<Num(3), Str("3")>>))>>)>>,
        <<Obj(<<P("metric", Obj(<<P("job", Str("api"))>>)), P("query", Str("rate")),
                P("value", Arr(<<Str("2"), Str("42")>>))>>)>>,
        <<Obj(<<P("value", Arr(<<Num(3), Str("0")>>))>>)>>,
        <<Obj(<<up, P("values", Arr(<<Arr(<<Num(1), Str("1")>>)>>)),
                P("value", Arr(<<Num(2), Str("42")>>))>>)>>,
        <<Obj(<<up, P("values", Arr(<<>>))>>)>>,
        <<Obj(<<up>>)>>,
        <<Obj(<<P("query", Str("up")), P("values", Str("none")),
                P("value", Arr(<<Num(2), Str("42")>>))>>)>>}

\* Metrics reply bodies that hold them, under data.result and under result
SeriesBodies ==
    {Obj(<<P("status", Str("success")),
           P("data", Obj(<<P("resultType", Str("matrix")), P("result", Arr(list))>>))>>) :
        list \in SeriesLists}
    \cup {Obj(<<P("result", Arr(list))>>) : list \in SeriesLists}

\* Reply bodies that hold records
RecordBodies(domain) ==
    CASE domain = "logs" ->
           {LogEnvelope(shape, records) : shape \in LogShapes, records \in LogRecordLists}
           \cup
           {Obj(<<P("data", Obj(<<P("logs", Arr(<<LogWithTime, LogWithoutTime>>))>>))>>),
            Obj(<<P("logs", Arr(<<LogWithoutTime>>))>>),
            Obj(<<P("data", Arr(<<LogWithTime>>))>>),
            Obj(<<P("data", Obj(<<P("result", Arr(<<LogWithTime>>))>>))>>),
            Obj(<<P("result", Arr(<<LogWithTime, Null>>))>>),
            Obj(<<P("logs", SparseLogs)>>)}
           \cup SeveralBodies
      [] domain = "metrics" ->
           {Obj(<<P("data", Obj(<<P("result", Arr(<<Series>>))>>))>>),
            Obj(<<P("result", Arr(<<Obj(<<P("query", Str("up")),
                  P("value", Arr(<<Num(2), Str("42")>>))>>)>>))>>),
            Obj(<<P("result", Arr(<<Null>>))>>)}
           \cup SeriesBodies
      [] OTHER ->
           {Obj(<<P("traces", Arr(<<Trace>>))>>),
            Obj(<<P("data", Obj(<<P("traces", Arr(<<Trace, Null>>))>>))>>),
            Obj(<<P("traces", SparseTraces)>>)}

Bodies(domain) ==
    ShapelessBodies \cup EmptyListBodies(domain) \cup NonListBodies(domain)
        \cup RecordBodies(domain)

\* The translator query() applies to the reply of a target of each domain, run when
\* Date.now() reads `clock`
TranslatorOf(domain, response, refId, clock) ==
    CASE domain = "logs" -> parseLogsResponse(response, refId, clock)
      [] domain = "metrics" -> parseMetricsResponse(response, refId)
      [] OTHER -> parseTracesResponse(response, refId)

\* Faulty variant of Translate: the last frame of the domain is kept and returned again
TranslateMemoized(domain, body, refId) ==
    /\ tin' = [domain |-> domain, body |-> body, refId |-> refId, at |-> now]
    /\ tout' = IF tin.domain = domain /\ tout.kind = "return"
               THEN tout
               ELSE TranslatorOf(domain, FetchResponse(body), refId, now)
    /\ UNCHANGED <<settings, client, targets, range, mapped, replies, doneAt, qpromise,
                   sent, rendered, now, creq, cres>>
    /\ UNCHANGED <<lastMetrics, lastLabels, lastLabelValues, invoked, returned, editor>>

\* The translator of a domain is applied to the reply the client resolved with
Translate(domain, body, refId) ==
    /\ tin' = [domain |-> domain, body |-> body, refId |-> refId, at |-> now]
    /\ tout' = TranslatorOf(domain, FetchResponse(body), refId, now)
    /\ UNCHANGED <<settings, client, targets, range, mapped, replies, doneAt, qpromise,
                   sent, rendered, now, creq, cres>>
    /\ UNCHANGED <<lastMetrics, lastLabels, lastLabelValues, invoked, returned, editor>>

Translating ==
    \E domain \in Domains : \E body \in Bodies(domain) : \E refId \in {"A", "B"} :
        Translate(domain, body, refId)

TranslateNext ==
    \/ Translating
    \/ Tick

TranslateSpec == Init /\ [][TranslateNext]_vars

----------------------------------------------------------------------------
(* The DataSource between query() calls: testDatasource(), the language provider,    *)
(* interpolateVariablesInQueries() and getLogFields()                                *)

DefaultErrorMessage == "Cannot connect to API"

\* err.message of what an awaited promise rejected with; the message of a TypeError is
\* that of the engine, a text that is not empty
ErrMessage(err) == IF err = TypeError THEN Str("TypeError") ELSE Get(err, "message")

\* Faulty variant of testDatasource: every reply that resolves counts as a success
testDatasourceAnyReply(health) ==
    IF health.state = "rejected"
    THEN Fulfilled(Obj(<<P("status", Str("error")),
                         P("message", Or(ErrMessage(health.val), Str(DefaultErrorMessage)))>>))
    ELSE Fulfilled(Obj(<<P("status", Str("success")),
                         P("message", Str("Successfully connected to Mirador Core API"))>>))

\* testDatasource() from the await on: `health` is the settled promise of client.health()
testDatasource(health) ==
    IF health.state = "rejected"
    THEN Fulfilled(Obj(<<P("status", Str("error")),
                         P("message", Or(ErrMessage(health.val), Str(DefaultErrorMessage)))>>))
    ELSE IF IsNullish(health.val)
    THEN Fulfilled(Obj(<<P("status", Str("error")),
                         P("message", Or(ErrMessage(TypeError), Str(DefaultErrorMessage)))>>))
    ELSE LET healthResponse == health.val
             data == Get(healthResponse, "data")
         IN IF Get(healthResponse, "status") = Num(200)
            THEN IF Truthy(data) /\ Get(data, "status") \in {Str("healthy"), Str("ok")}
                 THEN Fulfilled(Obj(<<P("status", Str("success")),
                        P("message",
                          Str("Successfully connected to "
                              \o ToStr(Or(Get(data, "service"), Str("Mirador Core")))
                              \o " v"
                              \o ToStr(Or(Get(data, "version"), Str("unknown")))))>>))
                 ELSE IF Truthy(data)
                 THEN Fulfilled(Obj(<<P("status", Str("error")),
                        P("message",
                          Str("Service status: "
                              \o ToStr(Or(Get(data, "status"), Str("unknown")))))>>))
                 ELSE Fulfilled(Obj(<<P("status", Str("success")),
                        P("message", Str("Successfully connected to Mirador Core API"))>>))
            ELSE Fulfilled(Obj(<<P("status", Str("error")),
                   P("message",
                     Str("HTTP " \o ToStr(Get(healthResponse, "status")) \o ": "
                         \o ToStr(Or(Get(healthResponse, "statusText"),
                                     Str("Connection failed")))))>>))

\* What the transport may settle the /health request with
HealthReply(status, statusText, data) ==
    OkReply(Obj(<<P("data", data), P("status", Num(status)), P("statusText", Str(statusText)),
                  P("ok", Bool(status = 200))>>))

HealthOutcomes ==
    {HealthReply(200, "OK", Obj(<<P("status", Str("healthy")), P("service", Str("mirador-core")),
                                  P("version", Str("1.2"))>>)),
     HealthReply(200, "OK", Obj(<<P("status", Str("ok"))>>)),
     HealthReply(200, "OK", Obj(<<P("status", Str("degraded"))>>)),
     HealthReply(200, "OK", Obj(<<P("service", Str("mirador-core"))>>)),
     HealthReply(200, "OK", Str("OK")),
     HealthReply(200, "OK", Undef),
     HealthReply(200, "OK", Null),
     HealthReply(200, "OK", Str("")),
     HealthReply(204, "No Content", Undef),
     HealthReply(203, "", Obj(<<P("status", Str("healthy"))>>)),
     ErrReply(FetchError(Num(503), Str("Service Unavailable"))),
     ErrReply(FetchError(Num(401), Str(""))),
     ErrReply(Null)}

\* The host calls testDatasource() and the transport settles its /health request
TestDatasource(outcome) ==
    /\ invoked' = [name |-> "testDatasource", args |-> <<>>,
                   options |-> Invoke(client, [name |-> "health", args |-> <<>>]),
                   outcome |-> outcome]
    /\ returned' = testDatasource(Settle([name |-> "health", args |-> <<>>], outcome))
    /\ UNCHANGED <<settings, client, targets, range, mapped, replies, doneAt, qpromise,
                   sent, rendered, now, creq, cres, tin, tout>>
    /\ UNCHANGED <<lastMetrics, lastLabels, lastLabelValues, editor>>

\* obj[key] = val
ObjSet(obj, key, val) ==
    IF HasKey(obj, key)
    THEN Obj([i \in 1..Len(obj.jv) |-> IF obj.jv[i].key = key THEN P(key, val) ELSE obj.jv[i]])
    ELSE Obj(obj.jv \o <<P(key, val)>>)

\* The URLs the metrics query builder asks the language provider for, each with the
\* client call request() maps it to and the label it is about
ProviderUrls ==
    {[url |-> "/api/v1/label/__name__/values", call |-> [name |-> "metricsNames", args |-> <<>>],
      labelName |-> "__name__"],
     [url |-> "/api/v1/label/job/values", call |-> [name |-> "labelValues", args |-> <<Str("job")>>],
      labelName |-> "job"],
     [url |-> "/api/v1/labels",
      call |-> [name |-> "metricsLabels", args |-> <<Undef, Undef, Undef>>],
      labelName |-> ""]}

\* What the transport may settle a request of the language provider with
ProviderOutcomes ==
    {OkReply(FetchResponse(Arr(<<Str("job"), Str("instance")>>))),
     OkReply(FetchResponse(Obj(<<P("names", Arr(<<Str("up")>>))>>))),
     OkReply(FetchResponse(Obj(<<P("status", Str("success")),
                                 P("data", Arr(<<Str("job"), Str("instance")>>))>>))),
     ErrReply(FetchError(Num(500), Str("Internal Server Error")))}

\* {status: 'success', data}: what languageProvider.request returns when its call failed
ProviderFallback(call) ==
    PrometheusList(IF call.name = "metricsLabels" THEN Arr(<<Str("__name__")>>) ELSE Arr(<<>>))

\* languageProvider.request(url) for one of the three URLs, with the transport settling
\* the request of its client call
LanguageProviderRequest(u, outcome) ==
    LET p == Settle(u.call, outcome)
        data == Get(p.val, "data")
        list == IF IsArray(data) THEN data ELSE Arr(<<>>)
    IN /\ invoked' = [name |-> "languageProvider.request", args |-> <<Str(u.url)>>,
                      options |-> Invoke(client, u.call), outcome |-> outcome]
       /\ IF p.state = "rejected"
          THEN /\ returned' = Fulfilled(ProviderFallback(u.call))
               /\ UNCHANGED <<lastMetrics, lastLabels, lastLabelValues>>
          ELSE /\ returned' = Fulfilled(IF IsArray(data) THEN data ELSE p.val)
               /\ lastMetrics' = IF u.call.name = "metricsNames" THEN list ELSE lastMetrics
               /\ lastLabels' = IF u.call.name = "metricsLabels" THEN list ELSE lastLabels
               /\ lastLabelValues' = IF u.call.name = "labelValues"
                                     THEN ObjSet(lastLabelValues, u.labelName, list)
                                     ELSE lastLabelValues
       /\ UNCHANGED <<settings, client, targets, range, mapped, replies, doneAt, qpromise,
                      sent, rendered, now, creq, cres, tin, tout, editor>>

\* Queries whose text refers to dashboard variables, and one that refers to none
TemplatedQueries ==
    {<<Obj(<<P("refId", Str("A")), P("queryType", Str("logs")),
             P("queryText", Str("service:$service_name AND host:$instance"))>>)>>,
     <<Obj(<<P("refId", Str("A")), P("queryType", Str("metrics")),
             P("queryText", Str("up{instance=\"$instance\"}"))>>),
       Obj(<<P("refId", Str("B")), P("queryType", Str("traces")),
             P("queryText", Str("service:checkout"))>>)>>,
     <<>>}

\* The current values of the dashboard variables
ScopedVarsSet ==
    {Obj(<<P("service_name", Obj(<<P("text", Str("checkout")), P("value", Str("checkout"))>>)),
           P("instance", Obj(<<P("text", Str("web-1")), P("value", Str("web-1"))>>))>>)}

\* interpolateVariablesInQueries(queries, scopedVars)
interpolateVariablesInQueries(queries, scopedVars) == queries

\* The host calls interpolateVariablesInQueries()
Interpolate(queries, scopedVars) ==
    /\ invoked' = [name |-> "interpolateVariablesInQueries",
                   args |-> <<Arr(queries), scopedVars>>, options |-> Undef,
                   outcome |-> NoReply]
    /\ returned' = Arr(interpolateVariablesInQueries(queries, scopedVars))
    /\ UNCHANGED <<settings, client, targets, range, mapped, replies, doneAt, qpromise,
                   sent, rendered, now, creq, cres, tin, tout>>
    /\ UNCHANGED <<lastMetrics, lastLabels, lastLabelValues, editor>>

\* getLogFields() from the await on: response is the promise client.logFields() returned
getLogFields(response) ==
    IF response.state = "rejected" THEN Arr(<<>>) ELSE response.val

\* What the transport may settle the /logs/fields request with: the field names under
\* data.fields, under fields and as the body itself, no field name, and failures
LogFieldsOutcomes ==
    {OkReply(FetchResponse(Obj(<<P("status", Str("success")),
         P("data", Obj(<<P("fields", Arr(<<Str("level"), Str("host")>>))>>))>>))),
     OkReply(FetchResponse(Obj(<<P("fields", Arr(<<Str("level")>>))>>))),
     OkReply(FetchResponse(Arr(<<Str("level"), Str("host")>>))),
     OkReply(FetchResponse(Arr(<<>>))),
     ErrReply(FetchError(Num(500), Str("Internal Server Error"))),
     ErrReply(Undef)}

\* The query editor calls getLogFields() and the transport settles its request
GetLogFields(outcome) ==
    LET call == [name |-> "logFields", args |-> <<>>]
    IN /\ invoked' = [name |-> "getLogFields", args |-> <<>>,
                      options |-> Invoke(client, call), outcome |-> outcome]
       /\ returned' = Fulfilled(getLogFields(Settle(call, outcome)))
       /\ UNCHANGED <<settings, client, targets, range, mapped, replies, doneAt, qpromise,
                      sent, rendered, now, creq, cres, tin, tout>>
       /\ UNCHANGED <<lastMetrics, lastLabels, lastLabelValues, editor>>

\* The requests of one target, and those of the templated queries as the host passes
\* them on from interpolateVariablesInQueries()
SessionRequests ==
    {ts \in TargetLists : Len(ts) = 1}
    \cup {interpolateVariablesInQueries(queries, scopedVars) :
             queries \in TemplatedQueries, scopedVars \in ScopedVarsSet}

Querying_Session == \E ts \in SessionRequests, r \in Ranges : QueryStart(ts, r)

TestingDatasource == \E outcome \in HealthOutcomes : TestDatasource(outcome)

ProviderRequesting ==
    \E u \in ProviderUrls, outcome \in ProviderOutcomes : LanguageProviderRequest(u, outcome)

Interpolating ==
    \E queries \in TemplatedQueries, scopedVars \in ScopedVarsSet :
        Interpolate(queries, scopedVars)

GettingLogFields == \E outcome \in LogFieldsOutcomes : GetLogFields(outcome)

\* The four methods called in any order, with every reply
MethodsNext ==
    \/ TestingDatasource
    \/ ProviderRequesting
    \/ Interpolating
    \/ GettingLogFields

MethodsSpec == Init /\ [][MethodsNext]_vars

\* Between query() calls the health check succeeds or fails, and the language provider
\* gets a list or a failure
Testing_Session ==
    \E outcome \in {HealthReply(200, "OK", Obj(<<P("status", Str("ok"))>>)),
                     ErrReply(FetchError(Num(503), Str("Service Unavailable")))} :
        TestDatasource(outcome)

Requesting_Session ==
    \E u \in ProviderUrls :
        \E outcome \in {OkReply(FetchResponse(Arr(<<Str("job"), Str("instance")>>))),
                         OkReply(FetchResponse(Obj(<<P("names", Arr(<<Str("up")>>))>>)))} :
            LanguageProviderRequest(u, outcome)

\* query() calls with calls of the other methods before, between and during them
SessionNext ==
    \/ Querying_Session
    \/ Settling
    \/ Tick
    \/ Render
    \/ Testing_Session
    \/ Requesting_Session
    \/ Interpolating

SessionSpec == Init /\ [][SessionNext]_vars

----------------------------------------------------------------------------
(* The language provider's queryLabelKeys, queryLabelValues and queryMetricsMetadata *)

\* Array.from(new Set(list)): each value once, at the place where it is first met
RECURSIVE Unique(_)
Unique(list) ==
    IF Len(list) = 0 THEN <<>>
    ELSE LET init == Unique(SubSeq(list, 1, Len(list) - 1))
             last == list[Len(list)]
         IN IF \E i \in 1..Len(init) : init[i] = last THEN init ELSE Append(init, last)

\* list.slice(0, n)
Slice(list, n) ==
    IF n >= 0 THEN SubSeq(list, 1, IF n < Len(list) THEN n ELSE Len(list))
    ELSE SubSeq(list, 1, Len(list) + n)

\* limit ? list.slice(0, limit) : list
Limited(list, limit) == IF Truthy(limit) THEN Slice(list, limit.jv) ELSE list

\* date.toISOString() of the instants of the model
toISOString(ms) ==
    IsoDates[CHOOSE i \in 1..Len(IsoDates) : IsoDates[i].val = ms].key

\* The fallback of queryLabelKeys
CommonLabels ==
    <<Str("job"), Str("instance"), Str("hostname"), Str("service"), Str("namespace"),
      Str("pod"), Str("container"), Str("__name__")>>

\* The fallback of queryLabelValues for __name__
FallbackMetrics == <<Str("cpu_usage"), Str("memory_usage"), Str("disk_usage")>>

\* queryLabelKeys(timeRange, match, limit) from the await on: labelsResponse is the promise
\* client.metricsLabels() returned
queryLabelKeys(labelsResponse, limit) ==
    IF labelsResponse.state = "rejected" THEN Arr(Limited(CommonLabels, limit))
    ELSE LET labels == Or(Get(labelsResponse.val, "data"), Arr(<<>>))
             allLabels == Unique(<<Str("__name__")>> \o labels.jv)
         IN Arr(Limited(allLabels, limit))

\* queryLabelValues(timeRange, labelKey, match, limit) from the await on
queryLabelValues(labelKey, response, limit) ==
    IF response.state = "rejected"
    THEN Arr(IF labelKey = "__name__" THEN FallbackMetrics ELSE <<>>)
    ELSE LET data == Get(response.val, "data")
             values == IF IsArray(data) THEN data.jv ELSE <<>>
         IN Arr(Limited(values, limit))

\* metadata[metric] = {type: 'gauge', help: `Metric: ${metric}`, unit: undefined}
MetricMetadata(metric) ==
    Obj(<<P("type", Str("gauge")), P("help", Str("Metric: " \o ToStr(metric))),
          P("unit", Undef)>>)

\* queryMetricsMetadata(limit) from the await on
queryMetricsMetadata(metricsResponse, limit) ==
    IF metricsResponse.state = "rejected" THEN Obj(<<>>)
    ELSE LET data == Get(metricsResponse.val, "data")
             metrics == IF IsArray(data) THEN data.jv ELSE <<>>
             limitedMetrics == Unique(Limited(metrics, limit))
         IN Obj([i \in 1..Len(limitedMetrics) |->
                    P(ToStr(limitedMetrics[i]), MetricMetadata(limitedMetrics[i]))])

\* The limit argument: none, 0, three positive values and a negative one
Limits == {Undef, Num(0), Num(1), Num(2), Num(3), Num(0 - 1)}

\* The match argument: none and a selector
Matches == {Undef, Str("{job=\"api\"}")}

\* What the transport may settle a request for labels, label values or metric names with
ListOutcomes ==
    ProviderOutcomes
    \cup {OkReply(FetchResponse(Arr(<<>>))),
          OkReply(FetchResponse(Arr(<<Str("job"), Str("__name__"), Str("job"),
                                      Str("pod")>>))),
          OkReply(FetchResponse(Obj(<<P("names", Arr(<<Str("up"), Str("down"), Str("up"),
                                                       Str("cpu_usage")>>))>>))),
          ErrReply(Undef)}

\* The query builder calls languageProvider.queryLabelKeys()
QueryLabelKeys(timeRange, match, limit, outcome) ==
    LET call == [name |-> "metricsLabels",
                 args |-> <<IF Truthy(match) THEN Arr(<<match>>) ELSE Undef,
                            Str(toISOString(timeRange.from)),
                            Str(toISOString(timeRange.to))>>]
    IN /\ invoked' = [name |-> "languageProvider.queryLabelKeys",
                      args |-> <<match, limit>>,
                      options |-> Invoke(client, call), outcome |-> outcome]
       /\ returned' = Fulfilled(queryLabelKeys(Settle(call, outcome), limit))
       /\ UNCHANGED <<settings, client, targets, range, mapped, replies, doneAt, qpromise,
                      sent, rendered, now, creq, cres, tin, tout>>
       /\ UNCHANGED <<lastMetrics, lastLabels, lastLabelValues, editor>>

\* The query builder calls languageProvider.queryLabelValues()
QueryLabelValues(labelKey, limit, outcome) ==
    LET call == IF labelKey = "__name__" THEN [name |-> "metricsNames", args |-> <<>>]
                ELSE [name |-> "labelValues", args |-> <<Str(labelKey)>>]
    IN /\ invoked' = [name |-> "languageProvider.queryLabelValues",
                      args |-> <<Str(labelKey), limit>>,
                      options |-> Invoke(client, call), outcome |-> outcome]
       /\ returned' = Fulfilled(queryLabelValues(labelKey, Settle(call, outcome), limit))
       /\ UNCHANGED <<settings, client, targets, range, mapped, replies, doneAt, qpromise,
                      sent, rendered, now, creq, cres, tin, tout>>
       /\ UNCHANGED <<lastMetrics, lastLabels, lastLabelValues, editor>>

\* The query builder calls languageProvider.queryMetricsMetadata()
QueryMetricsMetadata(limit, outcome) ==
    LET call == [name |-> "metricsNames", args |-> <<>>]
    IN /\ invoked' = [name |-> "languageProvider.queryMetricsMetadata",
                      args |-> <<limit>>,
                      options |-> Invoke(client, call), outcome |-> outcome]
       /\ returned' = Fulfilled(queryMetricsMetadata(Settle(call, outcome), limit))
       /\ UNCHANGED <<settings, client, targets, range, mapped, replies, doneAt, qpromise,
                      sent, rendered, now, creq, cres, tin, tout>>
       /\ UNCHANGED <<lastMetrics, lastLabels, lastLabelValues, editor>>

QueryingLabelKeys ==
    \E timeRange \in Ranges, match \in Matches, limit \in Limits, outcome \in ListOutcomes :
        QueryLabelKeys(timeRange, match, limit, outcome)

QueryingLabelValues ==
    \E labelKey \in {"__name__", "job"}, limit \in Limits, outcome \in ListOutcomes :
        QueryLabelValues(labelKey, limit, outcome)

QueryingMetricsMetadata ==
    \E limit \in Limits, outcome \in ListOutcomes : QueryMetricsMetadata(limit, outcome)

\* The three queries of the language provider called in any order, with every reply
ProviderNext ==
    \/ QueryingLabelKeys
    \/ QueryingLabelValues
    \/ QueryingMetricsMetadata

ProviderSpec == Init /\ [][ProviderNext]_vars

----------------------------------------------------------------------------
(* query() with one metrics target of every metrics query type *)

\* target.metricsQueryType: the six the switch knows, one it does not know, the empty
\* text and none
MetricsQueryTypeValues ==
    {Str("range"), Str("instant"), Str("aggregate"), Str("rollup"), Str("transform"),
     Str("label"), Str("histogram"), Str(""), Undef}

\* A metrics target; a field whose value is undefined is left out
MetricsTarget(metricsQueryType, functionName, step, queryText) ==
    Obj(<<P("refId", Str("A")), P("queryType", Str("metrics"))>>
        \o (IF metricsQueryType = Undef THEN <<>>
            ELSE <<P("metricsQueryType", metricsQueryType)>>)
        \o (IF functionName = Undef THEN <<>> ELSE <<P("functionName", functionName)>>)
        \o (IF step = Undef THEN <<>> ELSE <<P("step", step)>>)
        \o (IF queryText = Undef THEN <<>> ELSE <<P("queryText", queryText)>>))

MetricsTargets ==
    {MetricsTarget(metricsQueryType, functionName, step, queryText) :
        metricsQueryType \in MetricsQueryTypeValues,
        functionName \in {Undef, Str("avg")},
        step \in {Undef, Str("30s")},
        queryText \in {Undef, Str("up")}}

Querying_Metrics == \E target \in MetricsTargets, r \in Ranges : QueryStart(<<target>>, r)

MetricsNext ==
    \/ Querying_Metrics
    \/ Settling
    \/ Tick
    \/ Render

MetricsSpec == Init /\ [][MetricsNext]_vars

----------------------------------------------------------------------------
(* The query editor of a logs query: buildLuceneQuery and the handlers *)

\* Faulty variant of ConditionText: 'gt' and 'lt' are written with the brackets of
\* 'gte' and 'lte'
ConditionTextInclusive(condition) ==
    LET field == ToStr(Get(condition, "field"))
        value == ToStr(Get(condition, "value"))
        operator == Get(condition, "operator")
    IN CASE operator = Str("equals") -> field \o ":\"" \o value \o "\""
         [] operator = Str("not_equals") -> "NOT " \o field \o ":\"" \o value \o "\""
         [] operator = Str("contains") -> field \o ":*" \o value \o "*"
         [] operator = Str("not_contains") -> "NOT " \o field \o ":*" \o value \o "*"
         [] operator = Str("starts_with") -> field \o ":" \o value \o "*"
         [] operator = Str("ends_with") -> field \o ":*" \o value
         [] operator = Str("regex") -> field \o ":/" \o value \o "/"
         [] operator \in {Str("gt"), Str("gte")} -> field \o ":[" \o value \o " TO *]"
         [] operator \in {Str("lt"), Str("lte")} -> field \o ":[* TO " \o value \o "]"
         [] OTHER -> field \o ":\"" \o value \o "\""

\* The switch of buildLuceneQuery: the text of one condition
ConditionText(condition) ==
    LET field == ToStr(Get(condition, "field"))
        value == ToStr(Get(condition, "value"))
        operator == Get(condition, "operator")
    IN CASE operator = Str("equals") -> field \o ":\"" \o value \o "\""
         [] operator = Str("not_equals") -> "NOT " \o field \o ":\"" \o value \o "\""
         [] operator = Str("contains") -> field \o ":*" \o value \o "*"
         [] operator = Str("not_contains") -> "NOT " \o field \o ":*" \o value \o "*"
         [] operator = Str("starts_with") -> field \o ":" \o value \o "*"
         [] operator = Str("ends_with") -> field \o ":*" \o value
         [] operator = Str("regex") -> field \o ":/" \o value \o "/"
         [] operator = Str("gt") -> field \o ":{" \o value \o " TO *}"
         [] operator = Str("gte") -> field \o ":[" \o value \o " TO *]"
         [] operator = Str("lt") -> field \o ":{* TO " \o value \o "}"
         [] operator = Str("lte") -> field \o ":[* TO " \o value \o "]"
         [] OTHER -> field \o ":\"" \o value \o "\""

\* conditions.map(...).join('') from the condition at `index` on (index counts from 1)
RECURSIVE MapJoin(_, _)
MapJoin(conditions, index) ==
    IF index > Len(conditions) THEN ""
    ELSE LET condition == conditions[index]
             query == ConditionText(condition)
         IN (IF index > 1 /\ Truthy(Get(condition, "logicalOperator"))
             THEN " " \o ToStr(Get(condition, "logicalOperator")) \o " " \o query
             ELSE query)
            \o MapJoin(conditions, index + 1)

\* buildLuceneQuery(conditions)
buildLuceneQuery(conditions) ==
    IF Len(conditions) = 0 THEN "" ELSE MapJoin(conditions, 1)

\* The operators of a condition
Operators ==
    {"equals", "not_equals", "contains", "not_contains", "starts_with", "ends_with",
     "regex", "gt", "gte", "lt", "lte"}

\* A condition; logicalOperator is optional
Condition(field, operator, value, logicalOperator) ==
    Obj(<<P("field", Str(field)), P("operator", Str(operator)), P("value", Str(value))>>
        \o (IF logicalOperator = "" THEN <<>>
            ELSE <<P("logicalOperator", Str(logicalOperator))>>))

\* The conditions buildLuceneQuery is applied to
Conditions ==
    {Condition("level", operator, "error", logicalOperator) :
        operator \in Operators, logicalOperator \in {"AND", "OR", ""}}
    \cup {Condition("", "equals", "", "AND"), Condition("status", "gte", "500", "OR")}

\* buildLuceneQuery() is applied to the list it was applied to last with one more
\* condition
BuildLonger(condition) ==
    /\ invoked.name \in {"none", "buildLuceneQuery"}
    /\ LET conditions == IF invoked.name = "none" THEN <<>> ELSE invoked.args[1]
       IN /\ Len(conditions) < MaxConditions
          /\ invoked' = [name |-> "buildLuceneQuery",
                         args |-> <<Append(conditions, condition)>>,
                         options |-> Undef, outcome |-> NoReply]
          /\ returned' = Str(buildLuceneQuery(Append(conditions, condition)))
    /\ UNCHANGED <<settings, client, targets, range, mapped, replies, doneAt, qpromise,
                   sent, rendered, now, creq, cres, tin, tout>>
    /\ UNCHANGED <<lastMetrics, lastLabels, lastLabelValues, editor>>

\* buildLuceneQuery() is applied to the empty list
BuildEmpty ==
    /\ invoked' = [name |-> "buildLuceneQuery", args |-> <<(<<>>)>>,
                   options |-> Undef, outcome |-> NoReply]
    /\ returned' = Str(buildLuceneQuery(<<>>))
    /\ UNCHANGED <<settings, client, targets, range, mapped, replies, doneAt, qpromise,
                   sent, rendered, now, creq, cres, tin, tout>>
    /\ UNCHANGED <<lastMetrics, lastLabels, lastLabelValues, editor>>

Building == \E condition \in Conditions : BuildLonger(condition)

LuceneNext ==
    \/ Building
    \/ BuildEmpty

LuceneSpec == Init /\ [][LuceneNext]_vars

\* getDefaultQuery(): the query of a new panel
DefaultQuery ==
    Obj(<<P("queryType", Str("logs")), P("queryText", Str("")), P("editorMode", Str("code")),
          P("queryEngine", Str("bleve")), P("metricsQueryType", Str("range")),
          P("step", Str("15s")), P("metricsEditorMode", Str("code")),
          P("metricsVisualQuery",
            Obj(<<P("metric", Str("")), P("labels", Arr(<<>>)),
                  P("operations", Arr(<<>>))>>))>>)

\* logFields[0] of the logFields state, which holds whatever getLogFields() returned
FirstLogField(logFields) ==
    IF IsArray(logFields) /\ Len(logFields.jv) > 0 THEN logFields.jv[1] ELSE Undef

\* The condition onEditorModeChange and addCondition create
NewCondition(logFields) ==
    Obj(<<P("field", Or(FirstLogField(logFields), Str(""))), P("operator", Str("equals")),
          P("value", Str("")), P("logicalOperator", Str("AND"))>>)

\* The query onEditorModeChange(value) passes to onChange
onEditorModeChange(query, logFields, value) ==
    LET visualQuery == Get(query, "visualQuery")
        newQuery == ObjSet(query, "editorMode", Str(value))
    IN IF value = "builder" /\ (~Truthy(visualQuery) \/ Len(visualQuery.jv) = 0)
       THEN ObjSet(ObjSet(newQuery, "visualQuery", Arr(<<NewCondition(logFields)>>)),
                   "queryText", Str(""))
       ELSE IF value = "code" /\ Truthy(visualQuery) /\ Len(visualQuery.jv) > 0
       THEN ObjSet(newQuery, "queryText", Str(buildLuceneQuery(visualQuery.jv)))
       ELSE newQuery

\* Faulty variant of onVisualQueryChange: the conditions are stored, the text is not
\* rebuilt
onVisualQueryChangeKeepText(query, newVisualQuery) ==
    ObjSet(query, "visualQuery", Arr(newVisualQuery))

\* The query onVisualQueryChange(newVisualQuery) passes to onChange
onVisualQueryChange(query, newVisualQuery) ==
    ObjSet(ObjSet(query, "visualQuery", Arr(newVisualQuery)),
           "queryText", Str(buildLuceneQuery(newVisualQuery)))

\* visualQuery || []
VisualQueryOrEmpty(query) ==
    IF Truthy(Get(query, "visualQuery")) THEN Get(query, "visualQuery").jv ELSE <<>>

\* The editor shows the builder of a logs query
ShowsBuilder ==
    /\ Get(editor.query, "queryType") = Str("logs")
    /\ Get(editor.query, "editorMode") = Str("builder")

\* The effect of the editor runs loadLogFields() after a change of the query that made
\* editorMode 'builder'
StartsLoad(query, newQuery) ==
    /\ Get(newQuery, "queryType") = Str("logs")
    /\ Get(newQuery, "editorMode") = Str("builder")
    /\ \/ Get(query, "queryType") # Get(newQuery, "queryType")
       \/ Get(query, "editorMode") # Get(newQuery, "editorMode")

\* The user picks an editor mode; when the mode becomes 'builder' the effect runs
\* loadLogFields() up to its await: setLoadingFields(true) and getLogFields() is called
EditorModeChange(value) ==
    /\ Get(editor.query, "queryType") = Str("logs")
    /\ LET newQuery == onEditorModeChange(editor.query, editor.logFields, value)
       IN IF StartsLoad(editor.query, newQuery)
          THEN /\ editor.loads < MaxLoads
               /\ editor' = [editor EXCEPT !.query = newQuery, !.loadingFields = TRUE,
                                           !.loads = @ + 1]
          ELSE editor' = [editor EXCEPT !.query = newQuery]
    /\ UNCHANGED <<settings, client, targets, range, mapped, replies, doneAt, qpromise,
                   sent, rendered, now, creq, cres, tin, tout>>
    /\ UNCHANGED <<lastMetrics, lastLabels, lastLabelValues, invoked, returned>>

\* The user clicks "Add condition"
AddCondition ==
    /\ ShowsBuilder
    /\ Len(VisualQueryOrEmpty(editor.query)) < MaxConditions
    /\ editor' = [editor EXCEPT !.query =
          onVisualQueryChange(editor.query,
              Append(VisualQueryOrEmpty(editor.query), NewCondition(editor.logFields)))]
    /\ UNCHANGED <<settings, client, targets, range, mapped, replies, doneAt, qpromise,
                   sent, rendered, now, creq, cres, tin, tout>>
    /\ UNCHANGED <<lastMetrics, lastLabels, lastLabelValues, invoked, returned>>

\* What the user may change in a condition
ConditionUpdates == {P("value", Str("error")), P("logicalOperator", Str("OR"))}

\* The user changes one input of the condition at `index` (counted from 1)
UpdateCondition(index, update) ==
    /\ ShowsBuilder
    /\ index \in 1..Len(VisualQueryOrEmpty(editor.query))
    /\ editor' = [editor EXCEPT !.query =
          onVisualQueryChange(editor.query,
              [VisualQueryOrEmpty(editor.query) EXCEPT
                  ![index] = ObjSet(@, update.key, update.val)])]
    /\ UNCHANGED <<settings, client, targets, range, mapped, replies, doneAt, qpromise,
                   sent, rendered, now, creq, cres, tin, tout>>
    /\ UNCHANGED <<lastMetrics, lastLabels, lastLabelValues, invoked, returned>>

\* The user removes the condition at `index` (counted from 1)
RemoveCondition(index) ==
    /\ ShowsBuilder
    /\ index \in 1..Len(VisualQueryOrEmpty(editor.query))
    /\ LET visualQuery == VisualQueryOrEmpty(editor.query)
       IN editor' = [editor EXCEPT !.query =
             onVisualQueryChange(editor.query,
                 [k \in 1..(Len(visualQuery) - 1) |->
                     IF k < index THEN visualQuery[k] ELSE visualQuery[k + 1]])]
    /\ UNCHANGED <<settings, client, targets, range, mapped, replies, doneAt, qpromise,
                   sent, rendered, now, creq, cres, tin, tout>>
    /\ UNCHANGED <<lastMetrics, lastLabels, lastLabelValues, invoked, returned>>

\* The user picks a query engine
QueryEngineChange(value) ==
    /\ Get(editor.query, "queryType") = Str("logs")
    /\ editor' = [editor EXCEPT !.query = ObjSet(editor.query, "queryEngine", Str(value))]
    /\ UNCHANGED <<settings, client, targets, range, mapped, replies, doneAt, qpromise,
                   sent, rendered, now, creq, cres, tin, tout>>
    /\ UNCHANGED <<lastMetrics, lastLabels, lastLabelValues, invoked, returned>>

\* The user types the query text of code mode
QueryTextChange(value) ==
    /\ Get(editor.query, "queryType") = Str("logs")
    /\ Get(editor.query, "editorMode") = Str("code")
    /\ editor' = [editor EXCEPT !.query = ObjSet(editor.query, "queryText", Str(value))]
    /\ UNCHANGED <<settings, client, targets, range, mapped, replies, doneAt, qpromise,
                   sent, rendered, now, creq, cres, tin, tout>>
    /\ UNCHANGED <<lastMetrics, lastLabels, lastLabelValues, invoked, returned>>

\* What getLogFields() may resolve with: what it returns when its request succeeds with
\* the field names under data.fields, and when it fails
LogFieldsReplies ==
    {getLogFields(Settle([name |-> "logFields", args |-> <<>>], outcome)) :
        outcome \in {OkReply(FetchResponse(Obj(<<P("status", Str("success")),
                         P("data", Obj(<<P("fields", Arr(<<Str("level"), Str("host")>>))>>))>>))),
                     ErrReply(FetchError(Num(500), Str("Internal Server Error")))}}

\* loadLogFields() from its await on, for one of the calls in flight: setLogFields(fields)
\* and, in finally, setLoadingFields(false)
LoadLogFields(fields) ==
    /\ editor.loads > 0
    /\ editor' = [editor EXCEPT !.logFields = fields, !.loadingFields = FALSE,
                                !.loads = @ - 1]
    /\ UNCHANGED <<settings, client, targets, range, mapped, replies, doneAt, qpromise,
                   sent, rendered, now, creq, cres, tin, tout>>
    /\ UNCHANGED <<lastMetrics, lastLabels, lastLabelValues, invoked, returned>>

\* The editor of a new logs query
EditorInit ==
    /\ settings \in SettingsSet
    /\ client = DataSourceClient(settings)
    /\ targets = <<>>
    /\ range = NoRange
    /\ mapped = <<>>
    /\ replies = <<>>
    /\ doneAt = <<>>
    /\ qpromise = NotCalled
    /\ sent = <<>>
    /\ rendered = FALSE
    /\ now = 0
    /\ creq = NoRequest
    /\ cres = NotCalled
    /\ tin = NoInput
    /\ tout = Undef
    /\ lastMetrics = Arr(<<>>)
    /\ lastLabels = Arr(<<>>)
    /\ lastLabelValues = Obj(<<>>)
    /\ invoked = NotInvoked
    /\ returned = Undef
    /\ editor = [query |-> DefaultQuery, logFields |-> Arr(<<>>), loadingFields |-> FALSE,
                 loads |-> 0]

SwitchingMode == \E value \in {"builder", "code"} : EditorModeChange(value)
UpdatingCondition ==
    \E index \in 1..MaxConditions, update \in ConditionUpdates : UpdateCondition(index, update)
RemovingCondition == \E index \in 1..MaxConditions : RemoveCondition(index)
ChangingEngine == \E value \in {"bleve", "lucene"} : QueryEngineChange(value)
TypingText == \E value \in {"level:error"} : QueryTextChange(value)
LoadingLogFields == \E fields \in LogFieldsReplies : LoadLogFields(fields)

EditorNext ==
    \/ SwitchingMode
    \/ AddCondition
    \/ UpdatingCondition
    \/ RemovingCondition
    \/ ChangingEngine
    \/ TypingText
    \/ LoadingLogFields

EditorSpec == EditorInit /\ [][EditorNext]_vars

----------------------------------------------------------------------------
(* Properties of query() *)

\* A query() call is in progress or has returned and was not rendered yet
InCall == qpromise.state # "idle"

\* Target i makes a backend call
Issues(i) == Get(targets[i], "queryType") \in {Str("logs"), Str("metrics"), Str("traces")}

\* The call of target i has settled
Settled(i) == replies[i].kind # "none"

\* What the translator of target i does with its reply
Translation(i) ==
    LET refId == Get(targets[i], "refId").jv
        queryType == Get(targets[i], "queryType")
    IN IF queryType = Str("logs") THEN parseLogsResponse(replies[i].val, refId, doneAt[i])
       ELSE IF queryType = Str("traces") THEN parseTracesResponse(replies[i].val, refId)
       ELSE parseMetricsResponse(replies[i].val, refId)

\* The request of target i failed, or the translation of its reply threw
RequestFailed(i) == Issues(i) /\ replies[i].kind = "error"
TranslationFailed(i) == Issues(i) /\ replies[i].kind = "ok" /\ Translation(i).kind = "throw"

\* Every arrow function of the call in progress has run to its end
AllDone == \A i \in DOMAIN targets : Issues(i) => Settled(i)

\* C1: the promise query() returns is never rejected; once every call has settled it is
\* fulfilled, and the frame of each target whose request failed or whose reply could not
\* be translated is the placeholder: the target's refId, Time = [from, to] of the
\* requested range, value = [0, 0].
C1_QueryNeverRejects ==
    /\ qpromise.state # "rejected"
    /\ \A i \in DOMAIN mapped : mapped[i].state # "rejected"
    /\ InCall /\ AllDone => qpromise.state = "fulfilled"
    /\ qpromise.state = "fulfilled" =>
          \A i \in DOMAIN targets :
              RequestFailed(i) \/ TranslationFailed(i) =>
                  qpromise.val.data[i] =
                      [refId |-> Get(targets[i], "refId").jv,
                       fields |-> <<[name |-> "Time", type |-> "time",
                                     values |-> <<Num(range.from), Num(range.to)>>],
                                    [name |-> "value", type |-> "number",
                                     values |-> <<Num(0), Num(0)>>]>>]

\* query() has returned for a request with a target whose request failed and a target
\* whose reply could not be translated
C1_Witness ==
    /\ qpromise.state = "fulfilled"
    /\ \E i, j \in DOMAIN targets : RequestFailed(i) /\ TranslationFailed(j)

\* C2: the response of query() holds exactly one frame per target of the request, and
\* the frame at position i carries the refId of target i.
C2_OneFramePerTarget ==
    qpromise.state = "fulfilled" =>
        /\ Len(qpromise.val.data) = Len(targets)
        /\ \A i \in DOMAIN targets :
               Str(qpromise.val.data[i].refId) = Get(targets[i], "refId")

\* query() has returned for a request of MaxTargets targets, one failed and one not,
\* the later target settled first
C2_Witness ==
    /\ qpromise.state = "fulfilled"
    /\ Len(targets) = MaxTargets
    /\ \E i, j \in DOMAIN targets :
          /\ i < j /\ doneAt[j] < doneAt[i] /\ doneAt[j] >= 0
          /\ RequestFailed(i) /\ Issues(j) /\ replies[j].kind = "ok"

\* The reply of logs target i holds a record without _time
MissingTime(i) ==
    /\ Get(targets[i], "queryType") = Str("logs")
    /\ replies[i].kind = "ok"
    /\ LET entries == LocateLogEntries(Unwrap(replies[i].val))
       IN \E n \in 1..Len(entries) : ~Truthy(Get(entries[n], "_time"))

\* The frame the arrow function of target i returns when its reply is translated at
\* clock reading c
FrameAt(i, c) == QueryTarget(targets[i], range.from, range.to, replies[i], c).val

\* C3 as stated: the frame of target i is determined by target i, the time range and
\* the reply to target i's own call, and by nothing else.
C3_OwnInputsOnly ==
    \A i \in DOMAIN mapped :
        mapped[i].state = "fulfilled" =>
            \A c \in 0..MaxClock : mapped[i].val = FrameAt(i, c)

\* C3: the frame of target i is determined by target i, the time range, the reply to
\* target i's own call and the reading of the clock when that reply is translated;
\* whatever the outcomes of the sibling targets, that frame is what the response holds
\* at position i.
C3_OwnInputsAndClock ==
    /\ \A i \in DOMAIN mapped :
          mapped[i].state = "fulfilled" =>
              /\ doneAt[i] \in 0..now
              /\ mapped[i].val = FrameAt(i, doneAt[i])
    /\ qpromise.state = "fulfilled" =>
          \A i \in DOMAIN targets : qpromise.val.data[i] = mapped[i].val

\* query() has returned; a target's reply held records, one of them without _time, and
\* was translated after the clock had advanced, while the request of a sibling failed
C3_Witness ==
    /\ qpromise.state = "fulfilled"
    /\ \E i, j \in DOMAIN targets :
          i # j /\ MissingTime(i) /\ doneAt[i] > 0 /\ RequestFailed(j)

\* The targets that make a backend call
Calling == {i \in DOMAIN targets : Issues(i)}

\* A frame without its timestamp column
SansTimestamp(frame) ==
    [frame EXCEPT !.fields = SelectSeq(frame.fields, LAMBDA f : f.name # "timestamp")]

\* C4 as stated: had the sibling calls settled in any other order, the response would
\* hold the same frames in the same positions. (In another order the call of target i
\* settles at the instant at which the call of a sibling j settled in this one.)
C4_OrderIndependent ==
    qpromise.state = "fulfilled" =>
        \A i, j \in Calling : i # j => qpromise.val.data[i] = FrameAt(i, doneAt[j])

\* C4: had the sibling calls settled in any other order, the response would hold the
\* same frames in the same positions, except for the timestamp column of a logs frame
\* whose reply holds a record without _time: such a record is stamped with the reading
\* of the clock when its reply is translated. (As above, target i takes the instant of
\* any sibling j.)
C4_OrderIndependentButClock ==
    qpromise.state = "fulfilled" =>
        \A i, j \in Calling :
            i # j =>
                IF MissingTime(i)
                THEN SansTimestamp(qpromise.val.data[i])
                         = SansTimestamp(FrameAt(i, doneAt[j]))
                ELSE qpromise.val.data[i] = FrameAt(i, doneAt[j])

\* query() has returned; the call of the later target settled before the call of the
\* earlier one, whose reply holds a record without _time
C4_Witness ==
    /\ qpromise.state = "fulfilled"
    /\ \E i, j \in Calling :
          /\ i < j /\ doneAt[j] < doneAt[i]
          /\ MissingTime(i) /\ replies[j].kind = "ok"

\* C5 as stated: the frame of a target whose call has settled is delivered to the host
\* without waiting for the calls of the other targets.
C5_DeliveredWithoutWaiting ==
    \A i \in DOMAIN mapped :
        Issues(i) /\ mapped[i].state = "fulfilled" => qpromise.state = "fulfilled"

\* C5: query() delivers nothing while a call is pending: its promise is fulfilled, with
\* the frames of all targets, exactly when every call has settled, and it is fulfilled
\* eventually provided every call eventually settles.
C5_ResolvesWhenAllSettle ==
    /\ [](qpromise.state = "fulfilled" <=> (InCall /\ AllDone))
    /\ (qpromise.state = "pending" ~> qpromise.state = "fulfilled")

\* The call of one target has settled while the call of another is still pending
C5_Witness ==
    /\ qpromise.state = "pending"
    /\ \E i, j \in Calling :
          /\ mapped[i].state = "fulfilled" /\ replies[i].kind = "ok"
          /\ mapped[j].state = "pending"

\* The requests issued for target i during the call in progress
RequestsOf(i) == SelectSeq(sent, LAMBDA t : t.target = i)

\* C6: during a query() call exactly one request is issued for each logs, metrics or
\* traces target, the request of that target's query, and none for any other target;
\* a failed request is not issued again; a frame comes from the reply to the target's
\* own request of this call, and nothing is requested outside a call.
C6_OneRequestPerTarget ==
    /\ \A i \in DOMAIN targets :
          /\ Len(RequestsOf(i)) = (IF Issues(i) THEN 1 ELSE 0)
          /\ Issues(i) =>
                RequestsOf(i)[1].options =
                    Invoke(client, TargetCall(targets[i], range.from, range.to))
          /\ Issues(i) /\ mapped[i].state = "fulfilled" => Settled(i)
    /\ \A k \in DOMAIN sent : sent[k].target \in DOMAIN targets
    /\ ~InCall => sent = <<>>

\* A second query() call, after the first was rendered, has returned for two targets of
\* the same query type; the request of one of them failed
C6_Witness ==
    /\ rendered
    /\ qpromise.state = "fulfilled"
    /\ Len(targets) = 2
    /\ Issues(1)
    /\ Get(targets[1], "queryType") = Get(targets[2], "queryType")
    /\ RequestFailed(1)
    /\ replies[2].kind = "ok"

\* C8 as stated: when the instance is configured with a bearer token, every request
\* the DataSource issues carries Authorization: Bearer <token>; when it is configured
\* with a tenant id, every request carries X-Tenant-ID.
C8_RequestsCarryCredentials ==
    \A k \in DOMAIN sent :
        /\ Truthy(settings.token) =>
              Get(sent[k].options.headers, "Authorization")
                  = Str("Bearer " \o settings.token.jv)
        /\ Truthy(settings.tenantId) =>
              Get(sent[k].options.headers, "X-Tenant-ID") = settings.tenantId

----------------------------------------------------------------------------
(* Properties of MiradorAPIClient *)

\* A non-empty string
NonEmpty(j) == j.jt = "str" /\ j.jv # ""

\* The values a request carries under a header name
HeaderValues(options, name) ==
    LET h == SelectSeq(options.headers.jv, LAMBDA p : p.key = name)
    IN [n \in 1..Len(h) |-> h[n].val]

\* C7: every request of MiradorAPIClient carries Authorization: Bearer <token> exactly
\* when the client was constructed with a non-empty token, X-Tenant-ID exactly when it
\* was constructed with a non-empty tenant id, and no other header.
C7_HeadersFollowCredentials ==
    cres.state # "idle" =>
        /\ HeaderValues(creq.options, "Authorization") =
              (IF NonEmpty(client.token)
               THEN <<Str("Bearer " \o client.token.jv)>> ELSE <<>>)
        /\ HeaderValues(creq.options, "X-Tenant-ID") =
              (IF NonEmpty(client.tenantId) THEN <<client.tenantId>> ELSE <<>>)
        /\ \A n \in 1..Len(creq.options.headers.jv) :
              creq.options.headers.jv[n].key \in {"Authorization", "X-Tenant-ID"}

\* A client with a token and an empty tenant id has issued a request
C7_Witness ==
    /\ cres.state # "idle"
    /\ client.token = Str("s3cret")
    /\ client.tenantId = Str("")
    /\ creq.options.headers = Obj(<<P("Authorization", Str("Bearer s3cret"))>>)

\* C9: when the transport fails, the endpoint method rejects with an error named
\* MiradorAPIError whose status is the status of the transport error and whose message
\* is the message of the transport error or, when it has none, 'API request failed';
\* when the transport succeeds, the method does not reject.
C9_FailureBecomesMiradorAPIError ==
    cres.state \in {"fulfilled", "rejected"} =>
        IF creq.outcome.kind = "error"
        THEN /\ cres.state = "rejected"
             /\ Get(cres.val, "name") = Str("MiradorAPIError")
             /\ Get(cres.val, "status") = Get(creq.outcome.val, "status")
             /\ Get(cres.val, "message") =
                   (IF NonEmpty(Get(creq.outcome.val, "message"))
                    THEN Get(creq.outcome.val, "message")
                    ELSE Str("API request failed"))
        ELSE cres.state = "fulfilled"

\* A method has rejected after a transport error that has a status and no message
C9_Witness ==
    /\ cres.state = "rejected"
    /\ creq.outcome.kind = "error"
    /\ Get(creq.outcome.val, "status") = Num(502)
    /\ ~HasKey(creq.outcome.val, "message")
    /\ Get(cres.val, "message") = Str("API request failed")

----------------------------------------------------------------------------
(* Properties of the translators *)

\* The columns of the empty frame of each domain
EmptyColumns(domain) ==
    LET column(name, type) == [name |-> name, type |-> type, values |-> <<>>]
    IN CASE domain = "logs" ->
              <<column("timestamp", "time"), column("body", "string"),
                column("severity", "string")>>
         [] domain = "metrics" ->
              <<column("Time", "time"), column("value", "number")>>
         [] OTHER ->
              <<column("traceID", "string"), column("startTime", "time"),
                column("duration", "number"), column("serviceName", "string"),
                column("operationName", "string")>>

\* The reply translated last has none of the known shapes or holds no records
NoRecords ==
    /\ tin.domain \in Domains
    /\ tin.body \in ShapelessBodies \cup EmptyListBodies(tin.domain)
                       \cup NonListBodies(tin.domain)

\* C10: for a reply that has none of the known shapes or holds no records (an absent or
\* null body, an object without any known key, a known key holding an empty list or
\* something that is no list) the translator of each domain returns, without throwing,
\* the empty frame of the domain's columns under the refId it was given.
C10_EmptyFrameForNoRecords ==
    NoRecords =>
        tout = [kind |-> "return",
                val |-> [refId |-> tin.refId, fields |-> EmptyColumns(tin.domain)]]

\* The logs translator has returned for a reply with a null body
C10_Witness ==
    /\ tin.domain = "logs"
    /\ tin.body = Null
    /\ tout.kind = "return"

\* The column of a frame with a given name
Column(frame, name) ==
    frame.fields[CHOOSE k \in 1..Len(frame.fields) : frame.fields[k].name = name]

\* The message each log record of the model carries
MessageOf(record) == IF record = LogWithTime THEN Str("disk full") ELSE Str("started")

\* C11: for a logs reply whose n >= 1 records are located at data.logs, at logs, at
\* data (data being the list), at data.result or at result, the logs translator returns
\* a frame of exactly n rows (n timestamps, n bodies, n severities), row k being that of
\* record k.
C11_FiveEnvelopes ==
    \A shape \in LogShapes : \A records \in LogRecordLists :
        tin.domain = "logs" /\ tin.body = LogEnvelope(shape, records) =>
            /\ tout.kind = "return"
            /\ tout.val.refId = tin.refId
            /\ Len(Column(tout.val, "timestamp").values) = Len(records)
            /\ Len(Column(tout.val, "severity").values) = Len(records)
            /\ Column(tout.val, "body").values =
                  [k \in 1..Len(records) |-> MessageOf(records[k])]

\* The logs translator has returned for a reply whose three records are the list
\* under `data`
C11_Witness ==
    /\ tin.domain = "logs"
    /\ tin.body = LogEnvelope("data", <<LogWithTime, LogWithoutTime, LogWithTime>>)
    /\ tout.kind = "return"
    /\ Len(Column(tout.val, "body").values) = 3

\* The reply translated last is a logs reply with a record without _time
BodyMissingTime ==
    /\ tin.domain = "logs"
    /\ LET entries == LocateLogEntries(Unwrap(FetchResponse(tin.body)))
       IN \E n \in 1..Len(entries) : ~Truthy(Get(entries[n], "_time"))

\* What a translator returns without the values of a logs frame's timestamp column
SansTimestamps(result) ==
    IF result.kind = "return" THEN Return(SansTimestamp(result.val)) ELSE result

Healthy(outcome) ==
    /\ outcome.kind = "ok"
    /\ Get(outcome.val, "status") = Num(200)
    /\ \/ ~Truthy(Get(outcome.val, "data"))
       \/ Get(Get(outcome.val, "data"), "status") \in {Str("healthy"), Str("ok")}

Replaced(text) ==
    CASE text = "service:$service_name AND host:$instance" -> "service:checkout AND host:web-1"
      [] text = "up{instance=\"$instance\"}" -> "up{instance=\"web-1\"}"
      [] OTHER -> text

\* The query text a request to the backend carries
SentText(options) == Get(options.data, "query")

\* C15: references to dashboard variables in the query text are replaced by the
\* variables' current values: interpolateVariablesInQueries() returns the queries with
\* the replaced text, and the text of every request query() sends to the backend is the
\* replaced text.
C15_VariablesReplaced ==
    /\ invoked.name = "interpolateVariablesInQueries" =>
          \A k \in 1..Len(returned.jv) :
              Get(returned.jv[k], "queryText") =
                  Str(Replaced(Get(invoked.args[1].jv[k], "queryText").jv))
    /\ \A k \in 1..Len(sent) :
          SentText(sent[k].options) =
              Str(Replaced(Get(targets[sent[k].target], "queryText").jv))

\* What query() returns when the reply of each target is translated at the clock
\* reading clocks[i]
ResponseAt(clocks) ==
    QueryReturn([i \in DOMAIN targets |->
        QueryTarget(targets[i], range.from, range.to, replies[i], clocks[i])])

\* A step of query(): the call, or the settlement of one of its requests
QueryStep == mapped' # mapped \/ qpromise' # qpromise \/ sent' # sent \/ replies' # replies

\* C17 as stated: what query() returns is determined by the request and the replies to
\* its own calls alone.
C17_RequestAndRepliesOnly ==
    qpromise.state = "fulfilled" =>
        \A clocks \in [DOMAIN targets -> 0..MaxClock] : qpromise = ResponseAt(clocks)

\* C17: what query() returns is determined by the request, the replies to its own calls
\* and the clock readings at which the replies were translated, whatever query(),
\* testDatasource() and language-provider calls came before it and whatever lastMetrics,
\* lastLabels and lastLabelValues hold; and no step of query() changes lastMetrics,
\* lastLabels or lastLabelValues.
C17_NoStoredState ==
    /\ [](qpromise.state = "fulfilled" => qpromise = ResponseAt(doneAt))
    /\ [][QueryStep => UNCHANGED <<lastMetrics, lastLabels, lastLabelValues>>]_vars

\* query() has returned frames after an earlier query() call was rendered, after
\* testDatasource() was called and after the language provider stored a list
C17_Witness ==
    /\ qpromise.state = "fulfilled"
    /\ Len(targets) > 0
    /\ rendered
    /\ invoked.name = "testDatasource"
    /\ lastLabels # Arr(<<>>)
    /\ lastMetrics # Arr(<<>>)

\* The method and the path the README's API reference gives for each operation
DocumentedEndpoints ==
    <<P("health", <<"get", "/health">>),
      P("logs", <<"post", "/logs/query">>),
      P("logFields", <<"get", "/logs/fields">>),
      P("metricsQuery", <<"post", "/metrics/query">>),
      P("metricsQueryRange", <<"post", "/metrics/query_range">>),
      P("metricsNames", <<"get", "/metrics/names">>),
      P("metricsLabels", <<"get", "/metrics/labels">>),
      P("labelValues", <<"get", "/label/job/values">>),
      P("traces", <<"get", "/traces">>)>>

\* The request of the endpoint method called last is the documented one
AsDocumented(k) ==
    creq.call.name = DocumentedEndpoints[k].key =>
        /\ creq.options.method = DocumentedEndpoints[k].val[1]
        /\ creq.options.url = client.baseUrl \o DocumentedEndpoints[k].val[2]

\* C16: each backend operation is issued with the method and the path of the README's
\* API reference, appended to the base URL: GET /health, POST /logs/query,
\* GET /logs/fields, POST /metrics/query, POST /metrics/query_range, GET /metrics/names,
\* GET /metrics/labels, GET /label/{name}/values and GET /traces.
C16_DocumentedEndpoints == \A k \in 1..Len(DocumentedEndpoints) : AsDocumented(k)

\* The function endpoints and the function each applies when the target names none
FunctionDefaults ==
    <<P("aggregate", "sum"), P("rollup", "rate"), P("transform", "abs"),
      P("label", "label_replace")>>

\* C19: for a metrics target the operation follows from metricsQueryType alone:
\* 'instant' issues the instant query with time = floor(range.to / 1000); 'aggregate',
\* 'rollup', 'transform' and 'label' issue the function endpoint of that name with the
\* target's functionName or, by default, sum, rate, abs and label_replace; 'range', a
\* missing and an unrecognised value issue the range query with start = from / 1000,
\* end = to / 1000 and step = the target's step or '15s'. The query is queryText or ''.
C19_MetricsOperation ==
    \A k \in 1..Len(sent) :
        LET target == targets[sent[k].target]
            options == sent[k].options
            metricsQueryType == Get(target, "metricsQueryType")
            text == IF HasKey(target, "queryText") THEN Get(target, "queryText") ELSE Str("")
        IN Get(target, "queryType") = Str("metrics") =>
            /\ options.method = "post"
            /\ Get(options.data, "query") = text
            /\ IF metricsQueryType = Str("instant")
               THEN /\ options.url = client.baseUrl \o "/metrics/query"
                    /\ Get(options.data, "time") = Str(ToString(range.to \div 1000))
               ELSE IF \E f \in 1..Len(FunctionDefaults) :
                          metricsQueryType = Str(FunctionDefaults[f].key)
               THEN \E f \in 1..Len(FunctionDefaults) :
                      /\ metricsQueryType = Str(FunctionDefaults[f].key)
                      /\ options.url =
                            client.baseUrl \o "/metrics/query/" \o FunctionDefaults[f].key
                            \o "/" \o (IF HasKey(target, "functionName")
                                       THEN Get(target, "functionName").jv
                                       ELSE FunctionDefaults[f].val)
               ELSE /\ options.url = client.baseUrl \o "/metrics/query_range"
                    /\ Get(options.data, "start") = Str(DivThousandToString(range.from))
                    /\ Get(options.data, "end") = Str(DivThousandToString(range.to))
                    /\ Get(options.data, "step") =
                          (IF HasKey(target, "step") THEN Get(target, "step") ELSE Str("15s"))

\* query() has issued the request of a 'rollup' target that names no function:
\* POST /metrics/query/rollup/rate
C19_Witness ==
    /\ Len(sent) = 1
    /\ Get(targets[1], "metricsQueryType") = Str("rollup")
    /\ ~HasKey(targets[1], "functionName")
    /\ sent[1].options.url = client.baseUrl \o "/metrics/query/rollup/rate"

\* The first of the values that is truthy, `default` when none is
RECURSIVE FirstTruthy(_, _)
FirstTruthy(values, default) ==
    IF Len(values) = 0 THEN default
    ELSE IF Truthy(values[1]) THEN values[1]
    ELSE FirstTruthy(Tail(values), default)

\* The values of the columns of a frame, by name
Values(result, name) == Column(result.val, name).values

\* C18: row k of a logs frame holds the record's _msg, else its message, else the JSON
\* text of the record; its severity, else its level, else 'unknown'; the time of its
\* _time field, else the current time. Row k of a traces frame holds traceID or trace_id
\* (default ''), the time of startTime or start_time (default epoch 0), duration
\* (default 0), serviceName or service_name (default '') and operationName or
\* operation_name (default '').
C18_FieldFallbacks ==
    /\ tin.domain = "logs" /\ tout.kind = "return" =>
          LET e == LocateLogEntries(Unwrap(FetchResponse(tin.body)))
          IN \A k \in 1..Len(e) :
               /\ Values(tout, "body")[k] =
                     FirstTruthy(<<Get(e[k], "_msg"), Get(e[k], "message")>>,
                                 Str(JsonStringify(e[k])))
               /\ Values(tout, "severity")[k] =
                     FirstTruthy(<<Get(e[k], "severity"), Get(e[k], "level")>>, Str("unknown"))
               /\ Values(tout, "timestamp")[k] =
                     (IF Truthy(Get(e[k], "_time")) THEN DateGetTime(Get(e[k], "_time"))
                      ELSE Num(tin.at))
    /\ tin.domain = "logs" /\ tin.body = Obj(<<P("logs", SparseLogs)>>) =>
          /\ tout.kind = "return"
          /\ Values(tout, "body") = <<Str("disk full"), Str("started"),
                                     Str("{\"host\":\"web-1\"}"), Str("retry")>>
          /\ Values(tout, "severity") = <<Str("error"), Str("info"), Str("unknown"),
                                         Str("debug")>>
          /\ Values(tout, "timestamp") = <<Num(2500), Num(tin.at), Num(tin.at), Num(tin.at)>>
    /\ tin.domain = "traces" /\ tin.body = Obj(<<P("traces", SparseTraces)>>) =>
          /\ tout.kind = "return"
          /\ Values(tout, "traceID") = <<Str("abc"), Str("def"), Str("")>>
          /\ Values(tout, "startTime") = <<Num(1000), Num(2500), Num(0)>>
          /\ Values(tout, "duration") = <<Num(42), Num(0), Num(0)>>
          /\ Values(tout, "serviceName") = <<Str("checkout"), Str("cart"), Str("")>>
          /\ Values(tout, "operationName") = <<Str("GET /cart"), Str("POST /pay"), Str("")>>

\* The logs translator has returned, after the clock advanced, for the reply whose
\* third record has neither _msg nor message, neither severity nor level and no _time
C18_Witness ==
    /\ tin.domain = "logs"
    /\ tin.body = Obj(<<P("logs", SparseLogs)>>)
    /\ tin.at > 0
    /\ tout.kind = "return"
    /\ Values(tout, "body")[3] = Str("{\"host\":\"web-1\"}")
    /\ Values(tout, "severity")[3] = Str("unknown")
    /\ Values(tout, "timestamp")[3] = Num(tin.at)

\* What is written before the field, between field and value, and after the value for
\* each operator
OperatorForms ==
    <<P("equals", <<"", ":\"", "\"">>),
      P("not_equals", <<"NOT ", ":\"", "\"">>),
      P("contains", <<"", ":*", "*">>),
      P("not_contains", <<"NOT ", ":*", "*">>),
      P("starts_with", <<"", ":", "*">>),
      P("ends_with", <<"", ":*", "">>),
      P("regex", <<"", ":/", "/">>),
      P("gt", <<"", ":{", " TO *}">>),
      P("gte", <<"", ":[", " TO *]">>),
      P("lt", <<"", ":{* TO ", "}">>),
      P("lte", <<"", ":[* TO ", "]">>)>>

\* The text of a condition by OperatorForms
FormOf(condition) ==
    LET form == OperatorForms[CHOOSE k \in 1..Len(OperatorForms) :
                                 Str(OperatorForms[k].key) = Get(condition, "operator")].val
    IN form[1] \o Get(condition, "field").jv \o form[2] \o Get(condition, "value").jv
       \o form[3]

\* Conditions after the first carry a logical operator
Connected(conditions) ==
    \A k \in 2..Len(conditions) : HasKey(conditions[k], "logicalOperator")

\* The texts of the conditions in list order, each after the first one behind its own
\* logical operator between blanks
RECURSIVE Chained(_, _)
Chained(conditions, k) ==
    IF k > Len(conditions) THEN ""
    ELSE (IF k = 1 THEN ""
          ELSE " " \o Get(conditions[k], "logicalOperator").jv \o " ")
         \o FormOf(conditions[k]) \o Chained(conditions, k + 1)

QueryText(query) == Get(query, "queryText")
VisualQuery(query) == Get(query, "visualQuery")
InBuilder(query) == Get(query, "editorMode") = Str("builder")

\* queryText is the text buildLuceneQuery gives for visualQuery
Generated(query) ==
    QueryText(query) = Str(buildLuceneQuery(VisualQueryOrEmpty(query)))

Kept(old, new) == QueryText(new) = QueryText(old) /\ VisualQuery(new) = VisualQuery(old)

\* A step from a query without conditions makes visualQuery one new condition and
\* queryText the empty text
Started(old, new, logFields) ==
    /\ Len(VisualQueryOrEmpty(old)) = 0
    /\ QueryText(new) = Str("")
    /\ VisualQuery(new) = Arr(<<NewCondition(logFields)>>)

C21_FirstShapeWins ==
    \A held \in SeveralShapes : \A first \in FirstHolds :
        tin.domain = "logs" /\ tin.body = SeveralEnvelope(held, first) =>
            LET lists == IF first = "text" THEN held \ {Earliest(held)} ELSE held
                winner == Earliest(lists)
                records == IF first = "empty" THEN <<>> ELSE ListAt(winner)
            IN IF Len(records) = 0
               THEN tout = Return(createDataFrame(tin.refId, EmptyColumns("logs")))
               ELSE /\ tout.kind = "return"
                    /\ Len(Values(tout, "timestamp")) = Len(records)
                    /\ Len(Values(tout, "severity")) = Len(records)
                    /\ Values(tout, "body") =
                          [k \in 1..Len(records) |-> MessageOf(records[k])]

\* The logs translator has returned the empty frame for a reply whose list at data.logs
\* is empty while its lists at logs, data.result and result hold records
C21_Witness ==
    /\ tin.domain = "logs"
    /\ tin.body = SeveralEnvelope({"data.logs", "logs", "data.result", "result"}, "empty")
    /\ tout.kind = "return"
    /\ Values(tout, "body") = <<>>
\* C22: in every frame the logs translator returns, every column, the label columns built
\* from the records' additional keys included, has exactly one value per log record,
\* also when the records do not all carry the same additional keys.
C22_OneValuePerRecord ==
    tin.domain = "logs" /\ tout.kind = "return" =>
        LET records == LocateLogEntries(Unwrap(FetchResponse(tin.body)))
        IN \A k \in 1..Len(tout.val.fields) :
               Len(tout.val.fields[k].values) = Len(records)
\* The result list of a metrics reply body
ResultList(body) ==
    FirstTruthy(<<OptGet(OptGet(body, "data"), "result"), OptGet(body, "result")>>, Arr(<<>>))

\* The samples of a series: those of its values list, else its value pair, else none
Samples(series) ==
    IF IsArray(Get(series, "values")) THEN Get(series, "values").jv
    ELSE IF IsArray(Get(series, "value")) THEN <<Get(series, "value")>>
    ELSE <<>>

HasSamples(series) == IsArray(Get(series, "values")) \/ IsArray(Get(series, "value"))

\* C23: for a metrics reply with a non-empty result list the metrics translator renders
\* the first series only: a Time column and one number column named by the series'
\* __name__ label, else its query, else 'value'; one row per sample of its values list,
\* else one row for its value pair, else no row and the columns Time and value; each
\* timestamp is the sample's seconds times 1000; both columns have the same length.
C23_FirstSeriesOnly ==
    /\ tin.domain = "metrics" /\ tin.body \in SeriesBodies =>
          LET series == ResultList(tin.body).jv[1]
              samples == Samples(series)
              name == FirstTruthy(<<OptGet(Get(series, "metric"), "__name__"),
                                    Get(series, "query")>>, Str("value"))
          IN /\ tout.kind = "return"
             /\ tout.val.refId = tin.refId
             /\ Len(tout.val.fields) = 2
             /\ Len(tout.val.fields[1].values) = Len(tout.val.fields[2].values)
             /\ tout.val.fields[1].name = "Time"
             /\ tout.val.fields[1].type = "time"
             /\ tout.val.fields[2].type = "number"
             /\ tout.val.fields[2].name = (IF HasSamples(series) THEN name.jv ELSE "value")
             /\ tout.val.fields[1].values =
                   [i \in 1..Len(samples) |-> Num(1000 * ParseFloat(samples[i].jv[1]).jv)]
             /\ tout.val.fields[2].values =
                   [i \in 1..Len(samples) |-> ParseFloat(samples[i].jv[2])]
    /\ tin.domain = "metrics"
          /\ tin.body = Obj(<<P("result", Arr(<<Series,
                  Obj(<<P("query", Str("down")), P("value", Arr(<<Num(3), Str("3")>>))>>)>>))>>)
          => /\ tout.kind = "return"
             /\ tout.val.fields[1].values = <<Num(1000), Num(2000)>>
             /\ tout.val.fields[2].name = "up"
             /\ tout.val.fields[2].values = <<Num(1), Num(0)>>

\* The metrics translator has returned one row, named by the query, for a reply whose
\* only series has no __name__ label and a value pair with a textual timestamp
C23_Witness ==
    /\ tin.domain = "metrics"
    /\ tin.body = Obj(<<P("result", Arr(<<Obj(<<P("metric", Obj(<<P("job", Str("api"))>>)),
                        P("query", Str("rate")),
                        P("value", Arr(<<Str("2"), Str("42")>>))>>)>>))>>)
    /\ tout.kind = "return"
    /\ tout.val.fields[1].values = <<Num(2000)>>
    /\ tout.val.fields[2].name = "rate"
    /\ tout.val.fields[2].values = <<Num(42)>>
\* The entries of what a language-provider query resolved with: the elements of a list,
\* the keys of an object
Entries(j) == IF j.jt = "arr" THEN j.jv ELSE ObjectKeys(j)

\* C24: languageProvider.queryLabelKeys always includes '__name__' in its result and never
\* returns a key twice, whether the backend call succeeded or failed and whatever the
\* limit.
C24_NameAlwaysIncluded ==
    invoked.name = "languageProvider.queryLabelKeys" =>
        /\ returned.state = "fulfilled"
        /\ \E i \in 1..Len(returned.val.jv) : returned.val.jv[i] = Str("__name__")
        /\ \A i, j \in 1..Len(returned.val.jv) :
               returned.val.jv[i] = returned.val.jv[j] => i = j

\* C25: whenever a positive limit is passed to languageProvider.queryLabelKeys,
\* queryLabelValues or queryMetricsMetadata, the result holds at most limit entries, when
\* the backend call succeeded and when it failed and a fallback is returned.
C25_AtMostLimit ==
    /\ invoked.name \in {"languageProvider.queryLabelKeys",
                          "languageProvider.queryLabelValues",
                          "languageProvider.queryMetricsMetadata"}
    /\ invoked.args[Len(invoked.args)].jt = "num"
    /\ invoked.args[Len(invoked.args)].jv > 0
    => /\ returned.state = "fulfilled"
       /\ Len(Entries(returned.val)) <= invoked.args[Len(invoked.args)].jv
\* C26: getLogFields() always resolves, never rejects, with a list of field names that
\* the query editor can use as select options: the field list of the backend's reply
\* when the call succeeded, a fixed fallback list when it failed.
C26_ResolvesWithFieldList ==
    invoked.name = "getLogFields" =>
        /\ returned.state = "fulfilled"
        /\ IsArray(returned.val)
        /\ \A i \in 1..Len(returned.val.jv) : returned.val.jv[i].jt = "str"
\* C27: in the query editor loadingFields is true in every state in which a getLogFields()
\* call started by loadLogFields is in flight, also when loads overlap because the editor
\* came back to builder mode before an earlier load settled, and false once every
\* started load has settled.
C27_LoadingWhileInFlight == editor.loadingFields <=> editor.loads > 0
====
